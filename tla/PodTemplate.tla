----------------------------- MODULE PodTemplate -----------------------------
(***************************************************************************)
(* What the operator makes of a Perses spec: the workload with its pod     *)
(* template, the Service in front of it, and the client the resource       *)
(* controllers reach the instance with.  Five files build these parts and  *)
(* each reads the spec on its own; nothing but their agreement makes the   *)
(* result work.                                                            *)
(*                                                                         *)
(* A volume name is a pair <<prefix, rest>> and a path the sequence of its *)
(* components, so that the reserved prefixes can be told from the rest.    *)
(* The settings of the operator's command line are the record "op".        *)
(*                                                                         *)
(* Abstracted: the two probes are one, and so are the two security         *)
(* contexts; annotations are in PersesController.  A reserved tree of      *)
(* mount paths is told by whole components, in the code by characters.     *)
(***************************************************************************)
EXTENDS ApiConversion

CONSTANTS
    FlatName,      \* ProvisioningSecret.String(): "name-key" of each secret reference
    VolumeSafe,    \* the lower-case form, with hyphens, of each flat name
    TaggedImages   \* images with a tag

DefaultContainerPort == 8080
MaxContainerPort == 65535

\* s where c holds, nothing elsewhere.
When(c, s) == IF c THEN s ELSE <<>>

Elements(s) == {s[i] : i \in DOMAIN s}

-----------------------------------------------------------------------------
(***************************************************************************)
(* Questions asked of a spec.                                              *)
(***************************************************************************)
isTLSEnabled(spec) == spec.tls # Nil /\ Deref(spec.tls[1].enable, FALSE)

hasTLSConfiguration(spec) ==
    /\ isTLSEnabled(spec)
    /\ spec.tls[1].userCert # Nil
    /\ spec.tls[1].userCert[1].certPath # ""
    /\ Deref(spec.tls[1].userCert[1].privateKeyPath, "") # ""

UsesEmptyDir(spec) == spec.storage # Nil /\ spec.storage[1].emptyDir # Nil

RequiresDeployment(spec) ==
    spec.config.sql \/ (spec.config.file /\ UsesEmptyDir(spec))
RequiresStatefulSet(spec) == spec.config.file /\ ~UsesEmptyDir(spec)

Port(spec) == Deref(spec.containerPort, DefaultContainerPort)

SecretRefs(spec) == When(spec.provisioning # Nil, spec.provisioning[1])

GetSecretVolumeName(ref) == <<"provisioning-", VolumeSafe[FlatName[ref]]>>

-----------------------------------------------------------------------------
(***************************************************************************)
(* The parts of the pod template.                                          *)
(***************************************************************************)
Volume(name, source) == [name |-> <<"", name>>, source |-> source]

\* A certificate of type file gets a volume without a source.
createCertVolume(name, cert) ==
    Volume(name, IF cert.source.type \in {"secret", "configmap"}
                    THEN <<cert.source.type, Deref(cert.source.name, "")>>
                    ELSE <<"none", "">>)

SecretVolume(ref) == [name |-> GetSecretVolumeName(ref), source |-> <<"secret", ref.name>>]

GetVolumes(spec) ==
    << Volume("config", <<"configmap", "config">>), Volume("plugins", <<"emptyDir", "">>) >>
    \o When(spec.config.file,
            << Volume("storage", IF UsesEmptyDir(spec) THEN <<"emptyDir", "">>
                                                       ELSE <<"claim", "">>) >>)
    \o When(isTLSEnabled(spec) /\ spec.tls[1].caCert # Nil,
            << createCertVolume("ca", spec.tls[1].caCert[1]) >>)
    \o When(isTLSEnabled(spec) /\ spec.tls[1].userCert # Nil,
            << createCertVolume("tls", spec.tls[1].userCert[1]) >>)
    \o [i \in DOMAIN SecretRefs(spec) |-> SecretVolume(SecretRefs(spec)[i])]
    \o spec.volumes

Mount(name, path) == [name |-> <<"", name>>, path |-> path]

SecretMount(ref) ==
    [name |-> GetSecretVolumeName(ref),
     path |-> <<"etc", "perses", "provisioning", "secrets", FlatName[ref]>>]

GetVolumeMounts(spec) ==
    << Mount("config", <<"etc", "perses", "config">>),
       Mount("plugins", <<"etc", "perses", "plugins">>) >>
    \o When(spec.config.file, << Mount("storage", <<"perses">>) >>)
    \o When(isTLSEnabled(spec) /\ spec.tls[1].caCert # Nil, << Mount("ca", <<"ca">>) >>)
    \o When(isTLSEnabled(spec) /\ spec.tls[1].userCert # Nil, << Mount("tls", <<"tls">>) >>)
    \o [i \in DOMAIN SecretRefs(spec) |-> SecretMount(SecretRefs(spec)[i])]
    \o spec.volumeMounts

k8sToPersesVersion ==
    [VersionTLS10 |-> "1.0", VersionTLS11 |-> "1.1", VersionTLS12 |-> "1.2", VersionTLS13 |-> "1.3"]
k8sToPersesTLSVersion(version) ==
    IF version \in DOMAIN k8sToPersesVersion THEN k8sToPersesVersion[version] ELSE version

\* An argument is a pair <<flag, value>>.  The settings of the cluster's TLS
\* profile are passed on where the operator was told to configure its operands.
GetPersesArgs(spec, op) ==
    << <<"config", <<"etc", "perses", "config", "config.yaml">> >> >>
    \o When(spec.containerPort # Nil, << <<"listen-address", spec.containerPort[1]>> >>)
    \o When(hasTLSConfiguration(spec),
            << <<"tls-cert-file", <<"tls", spec.tls[1].userCert[1].certPath>> >>,
               <<"tls-key-file",
                 <<"tls", Deref(spec.tls[1].userCert[1].privateKeyPath, "")>> >> >>)
    \o When(op.tlsConfigureOperands /\ op.tlsMinVersion # "",
            << <<"tls-min-version", k8sToPersesTLSVersion(op.tlsMinVersion)>> >>)
    \o When(op.tlsConfigureOperands /\ op.tlsCipherSuites # "",
            << <<"tls-cipher-suites", op.tlsCipherSuites>> >>)
    \o When(spec.log # Nil, << <<"log", spec.log[1]>> >>)
    \o spec.args

\* Faulty variant: the probes ask the default port.
GetProbes_DefaultPort(spec) ==
    When(spec.probes # Nil, Pointer([port |-> DefaultContainerPort, scheme |-> "http"]))

\* The probes are plain HTTP whether or not the server speaks TLS.
GetProbes(spec) == When(spec.probes # Nil, Pointer([port |-> Port(spec), scheme |-> "http"]))

\* The operator's labels win over the ones of spec.metadata.
LabelsForPerses(name, spec) ==
    LET own == [instance |-> name, managedBy |-> "perses-operator"]
        user == IF spec.metadata = Nil THEN own ELSE spec.metadata[1].labels
    IN  [l \in DOMAIN own \cup DOMAIN user |->
            IF l \in DOMAIN own THEN own[l] ELSE user[l]]

\* Nil stands for the errors: no image, or one without a tag.
ImageForPerses(spec, op) ==
    LET image == IF Deref(spec.image, "") # "" THEN spec.image[1] ELSE op.image
    IN  When(image \in TaggedImages, Pointer(image))

\* GetPodSecurityContext and GetContainerSecurityContext.
GetSecurityContexts(spec) == Deref(spec.securityContexts, "default")

-----------------------------------------------------------------------------
(***************************************************************************)
(* The children and the client.                                            *)
(***************************************************************************)

\* Faulty variant: without a template the claim asks for more than v1alpha1's default.
VolumeClaimTemplate_OtherDefault(spec) ==
    IF spec.storage # Nil /\ spec.storage[1].pvcTemplate # Nil
       THEN LET pvc == spec.storage[1].pvcTemplate[1]
            IN  [pvc EXCEPT !.accessModes = IF @ = Nil THEN Pointer("ReadWriteOnce") ELSE @]
       ELSE [storageClassName |-> Nil, requests |-> Pointer(2),
             accessModes |-> Pointer("ReadWriteOnce")]

\* One gigabyte, read and written by one node, unless the spec has a template.
VolumeClaimTemplate(spec) ==
    IF spec.storage # Nil /\ spec.storage[1].pvcTemplate # Nil
       THEN LET pvc == spec.storage[1].pvcTemplate[1]
            IN  [pvc EXCEPT !.accessModes = IF @ = Nil THEN Pointer("ReadWriteOnce") ELSE @]
       ELSE [storageClassName |-> Nil, requests |-> Pointer(1),
             accessModes |-> Pointer("ReadWriteOnce")]

PodTemplateSpec(name, spec, op) ==
    [labels |-> LabelsForPerses(name, spec), image |-> ImageForPerses(spec, op),
     containerPort |-> Port(spec), volumeMounts |-> GetVolumeMounts(spec),
     args |-> GetPersesArgs(spec, op), probes |-> GetProbes(spec),
     volumes |-> GetVolumes(spec), env |-> spec.env, resources |-> spec.resources,
     scheduling |-> spec.scheduling, securityContexts |-> GetSecurityContexts(spec),
     serviceAccountName |-> Deref(spec.serviceAccountName, ""),
     priorityClassName |-> Deref(spec.priorityClassName, "")]

\* Without an image neither workload can be made.
createPersesDeployment(name, spec, op) ==
    When(ImageForPerses(spec, op) # Nil,
         Pointer([selector |-> LabelsForPerses(name, spec), replicas |-> spec.replicas,
                  template |-> PodTemplateSpec(name, spec, op)]))

createPersesStatefulSet(name, spec, op) ==
    When(ImageForPerses(spec, op) # Nil,
         Pointer([selector |-> LabelsForPerses(name, spec), replicas |-> spec.replicas,
                  template |-> PodTemplateSpec(name, spec, op),
                  volumeClaimTemplate |-> VolumeClaimTemplate(spec)]))

ServiceName(name, spec) ==
    IF spec.service # Nil /\ Deref(spec.service[1].name, "") # ""
       THEN spec.service[1].name[1] ELSE name

createPersesService(name, spec) ==
    [name |-> ServiceName(name, spec), port |-> Port(spec), targetPort |-> Port(spec),
     selector |-> LabelsForPerses(name, spec)]

\* The head of buildClient: where the client of an instance connects to.
ClientURL(name, spec, op) ==
    IF op.serverURL # Nil THEN op.serverURL[1]
    ELSE [scheme |-> IF isTLSEnabled(spec) THEN "https" ELSE "http", host |-> name,
          port |-> Port(spec)]

-----------------------------------------------------------------------------
(***************************************************************************)
(* The rules the API server applies to a v1alpha2 spec (the markers of the *)
(* types) and to a pod.                                                    *)
(***************************************************************************)
ReservedVolumes == {<<"", n>> : n \in {"config", "plugins", "storage", "ca", "tls"}}
ReservedTrees ==
    {<<"etc", "perses", d>> : d \in {"config", "plugins", "provisioning"}}
ReservedPaths == {<<"etc", "perses">>, <<"perses">>, <<"ca">>, <<"tls">>}

Under(path, tree) == Len(path) >= Len(tree) /\ SubSeq(path, 1, Len(tree)) = tree

SpecVolumesValid(spec) ==
    /\ \A v \in Elements(spec.volumes) :
          v.name \notin ReservedVolumes /\ v.name[1] # "provisioning-"
    /\ \A i, j \in DOMAIN spec.volumes : spec.volumes[i].name = spec.volumes[j].name => i = j

\* Faulty variant: only the reserved trees are kept from the user.
SpecVolumeMountsValid_TreesOnly(spec) ==
    \A m \in Elements(spec.volumeMounts) : \A t \in ReservedTrees : ~Under(m.path, t)

SpecVolumeMountsValid(spec) ==
    /\ \A m \in Elements(spec.volumeMounts) :
          /\ \A t \in ReservedTrees : ~Under(m.path, t)
          /\ m.path \notin ReservedPaths
    /\ \A i, j \in DOMAIN spec.volumeMounts :
          spec.volumeMounts[i].path = spec.volumeMounts[j].path => i = j

SecretSourceValid(source) ==
    /\ source.type \in {"secret", "configmap"} => source.name # Nil /\ source.namespace # Nil
    /\ "" \notin Elements(source.name) \cup Elements(source.namespace)

TLSValid(tls) ==
    \A c \in Elements(tls.caCert) \cup Elements(tls.userCert) : SecretSourceValid(c.source)

ClientValid(client) ==
    LET kubernetesAuth == client.kubernetesAuth # Nil
                          /\ Deref(client.kubernetesAuth[1].enable, FALSE)
    IN  /\ ~(kubernetesAuth /\ client.oauth # Nil)
        /\ ~(kubernetesAuth /\ client.basicAuth # Nil)
        /\ ~(client.basicAuth # Nil /\ client.oauth # Nil)
        /\ \A a \in Elements(client.basicAuth) : SecretSourceValid(a.source)
        /\ \A o \in Elements(client.oauth) : SecretSourceValid(o.source)
        /\ \A t \in Elements(client.tls) : TLSValid(t)

StorageValid(storage) == ~(storage.emptyDir # Nil /\ storage.pvcTemplate # Nil)

PersesSpecValid(spec) ==
    /\ spec.containerPort # Nil => spec.containerPort[1] \in 1..MaxContainerPort
    /\ \A c \in Elements(spec.client) : ClientValid(c)
    /\ \A t \in Elements(spec.tls) : TLSValid(t)
    /\ \A st \in Elements(spec.storage) : StorageValid(st)
    /\ SpecVolumesValid(spec)
    /\ SpecVolumeMountsValid(spec)

\* What the API server asks of a pod template: names and paths are used once,
\* and what is mounted is there.
PodAdmitted(template) ==
    LET vols == template.volumes
        mounts == template.volumeMounts
    IN  /\ \A i, j \in DOMAIN vols : vols[i].name = vols[j].name => i = j
        /\ \A i, j \in DOMAIN mounts : mounts[i].path = mounts[j].path => i = j
        /\ \A i \in DOMAIN mounts : \E j \in DOMAIN vols : vols[j].name = mounts[i].name
=============================================================================
