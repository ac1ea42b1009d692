------------------------------ MODULE PersesApi ------------------------------
(***************************************************************************)
(* One custom resource as its clients and the operator see it.  v1alpha2   *)
(* clients and v1alpha1 clients write it in turn; the API server defaults  *)
(* and validates a write in the version of the request, converts it to     *)
(* v1alpha2 through the webhook, and stores that.  What the operator       *)
(* deploys is a function of the stored spec (PodTemplate).                 *)
(*                                                                         *)
(* A write through the API server is one step: a client that updates reads *)
(* the object in its own version, changes a field and sends the whole      *)
(* object back, and an update of an object that changed in between is      *)
(* refused.                                                                *)
(***************************************************************************)
EXTENDS PodTemplate, SequencesExt

CONSTANTS
    Kinds,         \* the kinds this instance is about
    Name,          \* the name of the resource
    NewV1Specs,    \* kind -> the v1alpha1 specs a client creates it with
    NewV2Specs,    \* kind -> the v1alpha2 specs a client creates it with
    V1Edits,       \* kind -> <<field, value>> a v1alpha1 client may set
    V2Edits,       \* kind -> <<field, value>> a v1alpha2 client may set
    OperatorFlags, \* the operator's settings, one record for each way it may be started
    MaxWrites      \* bound on the number of writes

ASSUME KindsAssumption == Kinds \subseteq {"Perses", "PersesDashboard", "PersesDatasource"}
ASSUME MaxWritesAssumption == MaxWrites \in Nat

\* The fields of a spec in the version of the request and in the hub.
V1Fields ==
    [Perses |-> PersesSpecFields, PersesDashboard |-> DashboardSpecFields,
     PersesDatasource |-> DatasourceSpecFields]
V2Fields ==
    [Perses |-> PersesSpecFields \cup DOMAIN HubOnly,
     PersesDashboard |-> DashboardSpecFields \cup {"instanceSelector"},
     PersesDatasource |-> DatasourceSpecFields \cup {"instanceSelector"}]

\* What both schemas ask of the lists of a spec and of where its certificate is from.
SourceTyped(cert) == cert.source.type \in SecretSourceTypes
UserCertTyped(tls) == Optional(tls.userCert, SourceTyped)
SchemaField(f, v) ==
    /\ f \in {"args", "volumes", "volumeMounts"} => IsList(v)
    /\ f = "provisioning" => Optional(v, IsList)
    /\ f = "tls" => Optional(v, UserCertTyped)

\* The storage of the hub: a claim has a class, a request and access modes.
IsClaim(pvc) ==
    HasFields(pvc, {"storageClassName", "requests", "accessModes"}) /\ IsPointer(pvc.requests)
IsHubStorage(st) ==
    HasFields(st, {"emptyDir", "pvcTemplate"}) /\ Optional(st.pvcTemplate, IsClaim)
HubField(f, v) == SchemaField(f, v) /\ (f = "storage" => Optional(v, IsHubStorage))

\* A spec of each version, the way its schema allows it.
V1SpecOK(k, in) ==
    /\ HasFields(in, V1Fields[k])
    /\ \A f \in V1Fields[k] : IsSpecField(f, in[f]) /\ SchemaField(f, in[f])
V2SpecOK(k, in) ==
    HasFields(in, V2Fields[k]) /\ (k = "Perses" => \A f \in V2Fields[k] : HubField(f, in[f]))

\* A request that is not of its version's schema does not reach the webhook.
ASSUME SchemaAssumption ==
    \A k \in Kinds :
        /\ \A spec \in NewV1Specs[k] : V1SpecOK(k, spec)
        /\ \A edit \in V1Edits[k] : IsSpecField(edit[1], edit[2]) /\ SchemaField(edit[1], edit[2])
        /\ \A spec \in NewV2Specs[k] : V2SpecOK(k, spec)
        /\ \A edit \in V2Edits[k] : HubField(edit[1], edit[2])

VARIABLES
    kind,      \* the kind of the resource
    op,        \* the settings the operator runs with
    stored,    \* pointer to the object in etcd, a v1alpha2 one
    written,   \* pointer to the spec a v1alpha1 client sent, if that was the last write
    writes     \* number of writes so far

vars == <<kind, op, stored, written, writes>>

-----------------------------------------------------------------------------
(***************************************************************************)
(* The webhook.                                                            *)
(***************************************************************************)
ConvertTo(obj) ==
    CASE kind = "Perses"           -> Perses_To_v1alpha2(obj)
      [] kind = "PersesDashboard"  -> PersesDashboard_To_v1alpha2(obj)
      [] kind = "PersesDatasource" -> PersesDatasource_To_v1alpha2(obj)

ConvertFrom(obj) ==
    CASE kind = "Perses"           -> Perses_To_v1alpha1(obj)
      [] kind = "PersesDashboard"  -> PersesDashboard_To_v1alpha1(obj)
      [] kind = "PersesDatasource" -> PersesDatasource_To_v1alpha1(obj)

\* The defaults of the v1alpha1 schema.  A field whose value is its zero is not
\* sent, so a port of 0 counts as left out.
DefaultV1(spec) ==
    IF kind # "Perses" THEN spec
    ELSE [spec EXCEPT !.containerPort = IF @ = 0 THEN DefaultContainerPort ELSE @,
                      !.storage = IF @ = Nil THEN Pointer([storageClass |-> Nil, size |-> 1])
                                             ELSE @]

ValidV2(spec) ==
    CASE kind = "Perses"           -> PersesSpecValid(spec)
      [] kind = "PersesDashboard"  -> TRUE
      [] kind = "PersesDatasource" -> \A c \in Elements(spec.client) : ClientValid(c)

-----------------------------------------------------------------------------
Init ==
    /\ kind \in Kinds
    /\ op \in OperatorFlags
    /\ stored = Nil
    /\ written = Nil
    /\ writes = 0

\* The status is the operator's; a write of a client leaves it as it finds it.
StoreV1(obj, spec) ==
    /\ writes < MaxWrites
    /\ stored' = Pointer(ConvertTo([obj EXCEPT !.spec = DefaultV1(spec)]))
    /\ written' = Pointer(DefaultV1(spec))
    /\ writes' = writes + 1
    /\ UNCHANGED <<kind, op>>

StoreV2(obj, spec) ==
    /\ writes < MaxWrites
    /\ ValidV2(spec)
    /\ stored' = Pointer([obj EXCEPT !.spec = spec])
    /\ written' = Nil
    /\ writes' = writes + 1
    /\ UNCHANGED <<kind, op>>

New(spec, status) == [meta |-> Name, spec |-> spec, status |-> status]

CreateV1 ==
    /\ stored = Nil
    /\ \E spec \in NewV1Specs[kind] : StoreV1(New(spec, [conditions |-> Nil]), spec)

CreateV2 ==
    /\ stored = Nil
    /\ \E spec \in NewV2Specs[kind] :
          StoreV2(New(spec, IF kind = "Perses" THEN [conditions |-> Nil, provisioning |-> Nil]
                                              ELSE [conditions |-> Nil]), spec)

\* Reads the object as v1alpha1, sets one field, sends it back.
UpdateV1 ==
    /\ stored # Nil
    /\ \E edit \in V1Edits[kind] :
          LET obj == ConvertFrom(stored[1])
          IN  StoreV1(obj, [obj.spec EXCEPT ![edit[1]] = edit[2]])

UpdateV2 ==
    /\ stored # Nil
    /\ \E edit \in V2Edits[kind] :
          StoreV2(stored[1], [stored[1].spec EXCEPT ![edit[1]] = edit[2]])

\* A pass of the operator reports: the condition, and the versions of the secrets a
\* Perses is provisioned from.
Report ==
    /\ stored # Nil
    /\ stored' = Pointer([stored[1] EXCEPT !.status =
                    IF kind = "Perses"
                       THEN [conditions |-> Pointer("Available"),
                             provisioning |-> stored[1].spec.provisioning]
                       ELSE [conditions |-> Pointer("Available")]])
    /\ UNCHANGED <<kind, op, written, writes>>

Next == CreateV1 \/ CreateV2 \/ UpdateV1 \/ UpdateV2 \/ Report

Spec == Init /\ [][Next]_vars

-----------------------------------------------------------------------------
(***************************************************************************)
(* Properties.                                                             *)
(***************************************************************************)

\* The variables have their types: a v1alpha1 spec is remembered only beside the
\* stored form it was converted to, and every stored spec has the hub's fields.
TypeOK ==
    /\ kind \in Kinds
    /\ op \in OperatorFlags
    /\ writes \in 0..MaxWrites
    /\ Len(stored) \in 0..1 /\ Len(written) \in 0..1
    /\ written # Nil => stored # Nil
    /\ stored # Nil =>
          /\ DOMAIN stored[1] = {"meta", "spec", "status"}
          /\ LET converted == ConvertTo(ConvertFrom(stored[1]))
             IN  /\ DOMAIN stored[1].spec = DOMAIN converted.spec
                 /\ DOMAIN stored[1].status = DOMAIN converted.status

\* The conversions of a spec, by kind.
SpecTo(k, in) ==
    CASE k = "Perses"           -> PersesSpec_To_v1alpha2(in)
      [] k = "PersesDashboard"  -> DashboardSpec_To_v1alpha2(in)
      [] k = "PersesDatasource" -> DatasourceSpec_To_v1alpha2(in)
SpecFrom(k, in) ==
    CASE k = "Perses"           -> PersesSpec_To_v1alpha1(in)
      [] k = "PersesDashboard"  -> DashboardSpec_To_v1alpha1(in)
      [] k = "PersesDatasource" -> DatasourceSpec_To_v1alpha1(in)

StatusFields(k) == IF k = "Perses" THEN {"conditions", "provisioning"} ELSE {"conditions"}

\* An object of the hub.  Its port is not zero, and its volumes and mounts keep the
\* rules, whichever version it was written in.
HubObject(k, o) ==
    /\ HasFields(o, {"meta", "spec", "status"})
    /\ V2SpecOK(k, o.spec)
    /\ DOMAIN o.status = StatusFields(k)
    /\ k = "Perses" =>
          /\ o.spec.containerPort # Nil => o.spec.containerPort[1] # 0
          /\ SpecVolumesValid(o.spec) /\ SpecVolumeMountsValid(o.spec)

\* The webhook (ConvertTo, ConvertFrom) never stores an object that is not one of the
\* hub, although only v1alpha2 writes are checked by the hub's rules; and after a
\* v1alpha1 write what is stored is the conversion of the spec that was sent, which
\* has no default left to fill in.
ApiInv ==
    /\ TypeOK
    /\ stored # Nil => stored = Pointer(stored[1]) /\ HubObject(kind, stored[1])
    /\ written # Nil =>
          /\ written = Pointer(written[1])
          /\ V1SpecOK(kind, written[1])
          /\ DefaultV1(written[1]) = written[1]
          /\ stored[1].spec = SpecTo(kind, written[1])

\* ConvertTo followed by ConvertFrom: a v1alpha1 client that reads the object back
\* before anyone else writes it finds what it wrote.
ReadsBackWhatItWrote == written # Nil => ConvertFrom(stored[1]).spec = written[1]

\* What the operator deploys for a Perses with this spec.
Wanted(spec) ==
    [deployment  |-> When(RequiresDeployment(spec), createPersesDeployment(Name, spec, op)),
     statefulSet |-> When(RequiresStatefulSet(spec), createPersesStatefulSet(Name, spec, op)),
     service     |-> createPersesService(Name, spec)]

\* The second list tells the server what the first does: it is the same list, or has
\* the default listen address besides.
SameArgs(args, more) ==
    \/ more = args
    \/ \E i \in DOMAIN more :
          more[i] = <<"listen-address", DefaultContainerPort>> /\ args = RemoveAt(more, i)

\* Two workloads, if there are any, are the same up to that.
SameWorkload(old, new) ==
    \/ old = Nil /\ new = Nil
    \/ /\ old # Nil /\ new # Nil
       /\ SameArgs(old[1].template.args, new[1].template.args)
       /\ [new[1] EXCEPT !.template.args = old[1].template.args] = old[1]

\* The spec says nothing that v1alpha1 has no field for.
HasV1Form(spec) ==
    /\ \A f \in DOMAIN HubOnly : spec[f] = HubOnly[f]
    /\ \A st \in Elements(spec.storage) :
          /\ st.emptyDir = Nil
          /\ \A pvc \in Elements(st.pvcTemplate) :
                /\ pvc.accessModes = Nil
                /\ <<pvc.storageClassName, pvc.requests>> # <<Nil, Nil>>
                /\ pvc.requests # Pointer(0)

\* What is stored when a v1alpha1 client sends back what it read.
Resent ==
    LET obj == ConvertFrom(stored[1])
    IN  ConvertTo([obj EXCEPT !.spec = DefaultV1(obj.spec)])

\* A v1alpha1 client that reads a Perses and sends it back unchanged changes nothing
\* of what runs: the defaults of the v1alpha1 schema (port, claim of one gigabyte)
\* are the operator's own, and the zero values the conversion turns into pointers
\* (an empty image, service name or account) mean what nil means.  A claim that came
\* out differently would be worse than a restart: a StatefulSet refuses it.
V1RewriteKeepsDeployment ==
    kind = "Perses" /\ stored # Nil /\ HasV1Form(stored[1].spec) =>
        LET old == Wanted(stored[1].spec)
            new == Wanted(Resent.spec)
        IN  /\ new.service = old.service
            /\ SameWorkload(old.deployment, new.deployment)
            /\ SameWorkload(old.statefulSet, new.statefulSet)

\* The references name volumes of their own.
RefsApart(spec) ==
    \A i, j \in DOMAIN SecretRefs(spec) :
        GetSecretVolumeName(SecretRefs(spec)[i]) = GetSecretVolumeName(SecretRefs(spec)[j])
            => i = j

\* What the user mounts is a volume of the pod: the user's own or the operator's.
MountsPresent(spec) ==
    \A m \in Elements(spec.volumeMounts) : \E v \in Elements(GetVolumes(spec)) : v.name = m.name

\* The schema lets two mistakes through, references that name one volume and a mount
\* of a volume the pod does not have, and these are the only ones: GetVolumes and
\* GetVolumeMounts, each on its own, make of a spec that was let in through either
\* version a pod the API server takes, exactly when neither was made.  In particular
\* nothing a user adds has a name or path of the operator's own volumes and mounts or
\* of the references', and each of these mounts has its volume.  In every case the
\* certificate the arguments name is in the volume mounted there.
PodCanStart ==
    kind = "Perses" /\ stored # Nil =>
        LET template == PodTemplateSpec(Name, stored[1].spec, op)
            cert == stored[1].spec.tls[1].userCert[1]
        IN  /\ PodAdmitted(template)
                  <=> RefsApart(stored[1].spec) /\ MountsPresent(stored[1].spec)
            /\ hasTLSConfiguration(stored[1].spec) /\ cert.source.type # "file" =>
                  \E m \in Elements(template.volumeMounts), v \in Elements(template.volumes) :
                      /\ \E a \in Elements(template.args) :
                            a = <<"tls-cert-file", m.path \o <<cert.certPath>> >>
                      /\ v.name = m.name
                      /\ v.source = <<cert.source.type, Deref(cert.source.name, "")>>

\* The arguments a user adds leave the listen address alone: it has a field.
LeavesPort(spec) == \A a \in Elements(spec.args) : a[1] # "listen-address"

\* The port a server with these arguments listens on.
ListenPort(args) ==
    LET set == {a \in Elements(args) : a[1] = "listen-address"}
    IN  IF set = {} THEN DefaultContainerPort ELSE (CHOOSE a \in set : TRUE)[2]

\* The five places that read the port, each with its own default, agree: the server
\* listens where the container, the probes, the Service's target and the operator's own
\* client, through the Service's port, expect it.
PortsAgree ==
    kind = "Perses" /\ stored # Nil /\ LeavesPort(stored[1].spec) =>
        LET template == PodTemplateSpec(Name, stored[1].spec, op)
            service == createPersesService(Name, stored[1].spec)
            port == ListenPort(template.args)
        IN  /\ template.containerPort = port
            /\ \A p \in Elements(template.probes) : p.port = port
            /\ service.targetPort = port
            /\ op.serverURL = Nil => ClientURL(Name, stored[1].spec, op).port = service.port

\* spec.service.name "is the name of the Kubernetes Service resource" that serves the
\* instance: the client of the resource controllers connects to the Service under the
\* name it was given.
ClientReachesService ==
    kind = "Perses" /\ stored # Nil /\ op.serverURL = Nil =>
        ClientURL(Name, stored[1].spec, op).host = createPersesService(Name, stored[1].spec).name
=============================================================================
