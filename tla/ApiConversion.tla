---------------------------- MODULE ApiConversion ----------------------------
(***************************************************************************)
(* The two versions of the custom resources and the conversions between    *)
(* them.  v1alpha2 is the hub: it is what the API server stores and what   *)
(* the operator works with.  v1alpha1 is still served; the conversion      *)
(* webhook runs ConvertTo on what its clients write and ConvertFrom on     *)
(* what they read.                                                         *)
(*                                                                         *)
(* Most fields that are values in v1alpha1 are pointers in v1alpha2.  A    *)
(* pointer is a sequence: Nil is empty, a pointer to x is <<x>>, so that a *)
(* pointer to a zero value and a nil pointer are two things, as they are   *)
(* in the code.                                                            *)
(*                                                                         *)
(* Abstracted: contents that are copied as they are (configurations,       *)
(* labels, scheduling constraints, probes, conditions) are plain values;   *)
(* fields that are only ever copied together are one field.                *)
(***************************************************************************)
EXTENDS Naturals, Sequences

Nil == <<>>
Pointer(x) == <<x>>
Deref(p, zero) == IF p = Nil THEN zero ELSE p[1]

\* Convert_string_To_Pointer_string and its likes never make a nil pointer.
Convert_To_Pointer(in) == Pointer(in)
Convert_Pointer_To_string(in) == Deref(in, "")
Convert_Pointer_To_int32(in) == Deref(in, 0)
Convert_Pointer_To_bool(in) == Deref(in, FALSE)

\* An optional struct is converted where it is set.
WhereSet(in, Convert(_)) == IF in = Nil THEN Nil ELSE Pointer(Convert(in[1]))

-----------------------------------------------------------------------------
(***************************************************************************)
(* The v1alpha1 types: the fields of each struct, and which of them are    *)
(* pointers to another one.  What a field is otherwise made of is left     *)
(* open.                                                                   *)
(***************************************************************************)
HasFields(in, fields) == in = [f \in fields |-> in[f]]
Optional(in, IsA(_)) == in = Nil \/ (in = Pointer(in[1]) /\ IsA(in[1]))

IsPointer(in) == in = Nil \/ in = Pointer(in[1])

\* A slice of whatever its elements are.
IsList(in) == in \in Seq({in[i] : i \in DOMAIN in})

SecretSourceTypes == {"secret", "configmap", "file"}

IsSecretSource(in) == HasFields(in, {"type", "name", "namespace"})
IsBasicAuth(in) ==
    HasFields(in, {"source", "username", "passwordPath"}) /\ IsSecretSource(in.source)
IsCertificate(in) ==
    HasFields(in, {"source", "certPath", "privateKeyPath"}) /\ IsSecretSource(in.source)
IsOAuth(in) ==
    /\ HasFields(in, {"source", "clientIDPath", "clientSecretPath", "endpoint", "authStyle"})
    /\ IsSecretSource(in.source)
IsTLS(in) ==
    /\ HasFields(in, {"enable", "caCert", "userCert", "insecureSkipVerify"})
    /\ Optional(in.caCert, IsCertificate) /\ Optional(in.userCert, IsCertificate)
IsKubernetesAuth(in) == HasFields(in, {"enable"})
IsClient(in) ==
    /\ HasFields(in, {"basicAuth", "oauth", "tls", "kubernetesAuth"})
    /\ Optional(in.basicAuth, IsBasicAuth) /\ Optional(in.oauth, IsOAuth)
    /\ Optional(in.tls, IsTLS) /\ Optional(in.kubernetesAuth, IsKubernetesAuth)
IsMetadata(in) == HasFields(in, {"labels", "annotations"})
IsPersesService(in) == HasFields(in, {"name", "annotations"})
IsStorageConfiguration(in) == HasFields(in, {"storageClass", "size"})

PersesSpecFields ==
    {"metadata", "client", "config", "args", "containerPort", "replicas", "scheduling", "image",
     "service", "probes", "tls", "storage", "serviceAccountName"}
DatasourceSpecFields == {"config", "client"}
DashboardSpecFields == {"config"}

\* A value a v1alpha1 client may set the field of a spec to.
IsSpecField(f, v) ==
    /\ f = "metadata" => Optional(v, IsMetadata)
    /\ f = "client" => Optional(v, IsClient)
    /\ f = "service" => Optional(v, IsPersesService)
    /\ f = "tls" => Optional(v, IsTLS)
    /\ f = "storage" => Optional(v, IsStorageConfiguration)

-----------------------------------------------------------------------------
(***************************************************************************)
(* The parts of a spec.                                                    *)
(***************************************************************************)
SecretSource_To_v1alpha2(in) ==
    [type |-> in.type, name |-> Convert_To_Pointer(in.name),
     namespace |-> Convert_To_Pointer(in.namespace)]
SecretSource_To_v1alpha1(in) ==
    [type |-> in.type, name |-> Convert_Pointer_To_string(in.name),
     namespace |-> Convert_Pointer_To_string(in.namespace)]

BasicAuth_To_v1alpha2(in) ==
    [source |-> SecretSource_To_v1alpha2(in.source), username |-> in.username,
     passwordPath |-> in.passwordPath]
BasicAuth_To_v1alpha1(in) ==
    [source |-> SecretSource_To_v1alpha1(in.source), username |-> in.username,
     passwordPath |-> in.passwordPath]

Certificate_To_v1alpha2(in) ==
    [source |-> SecretSource_To_v1alpha2(in.source), certPath |-> in.certPath,
     privateKeyPath |-> Convert_To_Pointer(in.privateKeyPath)]
Certificate_To_v1alpha1(in) ==
    [source |-> SecretSource_To_v1alpha1(in.source), certPath |-> in.certPath,
     privateKeyPath |-> Convert_Pointer_To_string(in.privateKeyPath)]

\* tokenURL, scopes and endpointParams are the endpoint.  The auth style is
\* converted by hand: zero, which means detect it, is left out.
OAuth_To_v1alpha2(in) ==
    [source |-> SecretSource_To_v1alpha2(in.source),
     clientIDPath |-> Convert_To_Pointer(in.clientIDPath),
     clientSecretPath |-> Convert_To_Pointer(in.clientSecretPath),
     endpoint |-> in.endpoint,
     authStyle |-> IF in.authStyle # 0 THEN Pointer(in.authStyle) ELSE Nil]
OAuth_To_v1alpha1(in) ==
    [source |-> SecretSource_To_v1alpha1(in.source),
     clientIDPath |-> Convert_Pointer_To_string(in.clientIDPath),
     clientSecretPath |-> Convert_Pointer_To_string(in.clientSecretPath),
     endpoint |-> in.endpoint,
     authStyle |-> IF in.authStyle # Nil THEN in.authStyle[1] ELSE 0]

TLS_To_v1alpha2(in) ==
    [enable |-> Convert_To_Pointer(in.enable),
     caCert |-> WhereSet(in.caCert, Certificate_To_v1alpha2),
     userCert |-> WhereSet(in.userCert, Certificate_To_v1alpha2),
     insecureSkipVerify |-> Convert_To_Pointer(in.insecureSkipVerify)]
TLS_To_v1alpha1(in) ==
    [enable |-> Convert_Pointer_To_bool(in.enable),
     caCert |-> WhereSet(in.caCert, Certificate_To_v1alpha1),
     userCert |-> WhereSet(in.userCert, Certificate_To_v1alpha1),
     insecureSkipVerify |-> Convert_Pointer_To_bool(in.insecureSkipVerify)]

KubernetesAuth_To_v1alpha2(in) == [enable |-> Convert_To_Pointer(in.enable)]
KubernetesAuth_To_v1alpha1(in) == [enable |-> Convert_Pointer_To_bool(in.enable)]

Client_To_v1alpha2(in) ==
    [basicAuth |-> WhereSet(in.basicAuth, BasicAuth_To_v1alpha2),
     oauth |-> WhereSet(in.oauth, OAuth_To_v1alpha2),
     tls |-> WhereSet(in.tls, TLS_To_v1alpha2),
     kubernetesAuth |-> WhereSet(in.kubernetesAuth, KubernetesAuth_To_v1alpha2)]
Client_To_v1alpha1(in) ==
    [basicAuth |-> WhereSet(in.basicAuth, BasicAuth_To_v1alpha1),
     oauth |-> WhereSet(in.oauth, OAuth_To_v1alpha1),
     tls |-> WhereSet(in.tls, TLS_To_v1alpha1),
     kubernetesAuth |-> WhereSet(in.kubernetesAuth, KubernetesAuth_To_v1alpha1)]

Metadata_To_v1alpha2(in) == [labels |-> in.labels, annotations |-> in.annotations]
Metadata_To_v1alpha1(in) == [labels |-> in.labels, annotations |-> in.annotations]

PersesService_To_v1alpha2(in) ==
    [name |-> Convert_To_Pointer(in.name), annotations |-> in.annotations]
PersesService_To_v1alpha1(in) ==
    [name |-> Convert_Pointer_To_string(in.name), annotations |-> in.annotations]

\* Faulty variant: the class of the storage is only looked at with a size.
StorageConfiguration_To_v1alpha2_BySize(in) ==
    [emptyDir |-> Nil,
     pvcTemplate |-> IF in.size = 0 THEN Nil
                     ELSE Pointer([storageClassName |-> in.storageClass,
                                   requests |-> Pointer(in.size), accessModes |-> Nil])]

\* A size of zero stands for no size.
StorageConfiguration_To_v1alpha2(in) ==
    [emptyDir |-> Nil,
     pvcTemplate |-> IF in.storageClass = Nil /\ in.size = 0 THEN Nil
                     ELSE Pointer([storageClassName |-> in.storageClass,
                                   requests |-> IF in.size # 0 THEN Pointer(in.size) ELSE Nil,
                                   accessModes |-> Nil])]
\* An emptyDir is dropped.
StorageConfiguration_To_v1alpha1(in) ==
    IF in.pvcTemplate = Nil
       THEN [storageClass |-> Nil, size |-> 0]
       ELSE [storageClass |-> in.pvcTemplate[1].storageClassName,
             size |-> Deref(in.pvcTemplate[1].requests, 0)]

-----------------------------------------------------------------------------
(***************************************************************************)
(* Perses.  Fields copied together: nodeSelector, tolerations and affinity *)
(* (scheduling); the two probes; the two security contexts; env and        *)
(* envFrom; logLevel and logMethodTrace (log).                             *)
(***************************************************************************)

\* What v1alpha1 has no field for, and its zero values.
HubOnly ==
    [resources |-> Nil, priorityClassName |-> Nil, securityContexts |-> Nil, log |-> Nil,
     provisioning |-> Nil, volumes |-> <<>>, volumeMounts |-> <<>>, env |-> <<>>]

PersesSpec_To_v1alpha2(in) ==
    [metadata |-> WhereSet(in.metadata, Metadata_To_v1alpha2),
     client |-> WhereSet(in.client, Client_To_v1alpha2),
     config |-> in.config, args |-> in.args,
     containerPort |-> Convert_To_Pointer(in.containerPort),
     replicas |-> in.replicas, scheduling |-> in.scheduling,
     image |-> Convert_To_Pointer(in.image),
     service |-> WhereSet(in.service, PersesService_To_v1alpha2),
     probes |-> in.probes,
     tls |-> WhereSet(in.tls, TLS_To_v1alpha2),
     storage |-> WhereSet(in.storage, StorageConfiguration_To_v1alpha2),
     serviceAccountName |-> Convert_To_Pointer(in.serviceAccountName),
     resources |-> HubOnly.resources, priorityClassName |-> HubOnly.priorityClassName,
     securityContexts |-> HubOnly.securityContexts, log |-> HubOnly.log,
     provisioning |-> HubOnly.provisioning, volumes |-> HubOnly.volumes,
     volumeMounts |-> HubOnly.volumeMounts, env |-> HubOnly.env]

\* The hub-only fields are dropped.
PersesSpec_To_v1alpha1(in) ==
    [metadata |-> WhereSet(in.metadata, Metadata_To_v1alpha1),
     client |-> WhereSet(in.client, Client_To_v1alpha1),
     config |-> in.config, args |-> in.args,
     containerPort |-> Convert_Pointer_To_int32(in.containerPort),
     replicas |-> in.replicas, scheduling |-> in.scheduling,
     image |-> Convert_Pointer_To_string(in.image),
     service |-> WhereSet(in.service, PersesService_To_v1alpha1),
     probes |-> in.probes,
     tls |-> WhereSet(in.tls, TLS_To_v1alpha1),
     storage |-> WhereSet(in.storage, StorageConfiguration_To_v1alpha1),
     serviceAccountName |-> Convert_Pointer_To_string(in.serviceAccountName)]

\* Faulty variant: the new field is not filled in.
PersesStatus_To_v1alpha2_Same(in) == [conditions |-> in.conditions]

\* The versions of the provisioning secrets are dropped from the status.
PersesStatus_To_v1alpha2(in) == [conditions |-> in.conditions, provisioning |-> Nil]
PersesStatus_To_v1alpha1(in) == [conditions |-> in.conditions]

Perses_To_v1alpha2(in) ==
    [meta |-> in.meta, spec |-> PersesSpec_To_v1alpha2(in.spec),
     status |-> PersesStatus_To_v1alpha2(in.status)]
Perses_To_v1alpha1(in) ==
    [meta |-> in.meta, spec |-> PersesSpec_To_v1alpha1(in.spec),
     status |-> PersesStatus_To_v1alpha1(in.status)]

-----------------------------------------------------------------------------
(***************************************************************************)
(* PersesDashboard and PersesDatasource.  In v1alpha2 the content moved    *)
(* into a config and an instanceSelector came beside it.                   *)
(***************************************************************************)
DashboardSpec_To_v1alpha2(in) == [config |-> in.config, instanceSelector |-> Nil]
DashboardSpec_To_v1alpha1(in) == [config |-> in.config]

DashboardStatus_To_v1alpha2(in) == [conditions |-> in.conditions]
DashboardStatus_To_v1alpha1(in) == [conditions |-> in.conditions]

PersesDashboard_To_v1alpha2(in) ==
    [meta |-> in.meta, spec |-> DashboardSpec_To_v1alpha2(in.spec),
     status |-> DashboardStatus_To_v1alpha2(in.status)]
PersesDashboard_To_v1alpha1(in) ==
    [meta |-> in.meta, spec |-> DashboardSpec_To_v1alpha1(in.spec),
     status |-> DashboardStatus_To_v1alpha1(in.status)]

DatasourceSpec_To_v1alpha2(in) ==
    [config |-> in.config, client |-> WhereSet(in.client, Client_To_v1alpha2),
     instanceSelector |-> Nil]
\* Written by hand, and copies the config only.
DatasourceSpec_To_v1alpha1(in) == [config |-> in.config, client |-> Nil]

DatasourceStatus_To_v1alpha2(in) == [conditions |-> in.conditions]
DatasourceStatus_To_v1alpha1(in) == [conditions |-> in.conditions]

PersesDatasource_To_v1alpha2(in) ==
    [meta |-> in.meta, spec |-> DatasourceSpec_To_v1alpha2(in.spec),
     status |-> DatasourceStatus_To_v1alpha2(in.status)]
PersesDatasource_To_v1alpha1(in) ==
    [meta |-> in.meta, spec |-> DatasourceSpec_To_v1alpha1(in.spec),
     status |-> DatasourceStatus_To_v1alpha1(in.status)]
=============================================================================
