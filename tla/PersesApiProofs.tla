--------------------------- MODULE PersesApiProofs ---------------------------
(***************************************************************************)
(* Theorems about PersesApi, for every set of specs, edits and operator    *)
(* settings.                                                               *)
(***************************************************************************)
EXTENDS PersesApi, SequenceTheorems, TLAPS

(***************************************************************************)
(* The conversions, one struct at a time: what v1alpha1 wrote comes back.  *)
(***************************************************************************)

\* A secret source survives the trip through the hub.
LEMMA SourceRoundTrip ==
    ASSUME NEW in, IsSecretSource(in)
    PROVE  SecretSource_To_v1alpha1(SecretSource_To_v1alpha2(in)) = in
  BY DEF IsSecretSource, HasFields, SecretSource_To_v1alpha1, SecretSource_To_v1alpha2,
     Convert_To_Pointer, Convert_Pointer_To_string, Deref, Pointer, Nil

\* So does a certificate.
LEMMA CertificateRoundTrip ==
    ASSUME NEW in, IsCertificate(in)
    PROVE  Certificate_To_v1alpha1(Certificate_To_v1alpha2(in)) = in
<1>1. SecretSource_To_v1alpha1(SecretSource_To_v1alpha2(in.source)) = in.source
  BY SourceRoundTrip DEF IsCertificate
<1> QED
  BY <1>1 DEF IsCertificate, HasFields, Certificate_To_v1alpha1, Certificate_To_v1alpha2,
     Convert_To_Pointer, Convert_Pointer_To_string, Deref, Pointer, Nil

\* So does the basic authentication.
LEMMA BasicAuthRoundTrip ==
    ASSUME NEW in, IsBasicAuth(in)
    PROVE  BasicAuth_To_v1alpha1(BasicAuth_To_v1alpha2(in)) = in
<1>1. SecretSource_To_v1alpha1(SecretSource_To_v1alpha2(in.source)) = in.source
  BY SourceRoundTrip DEF IsBasicAuth
<1> QED
  BY <1>1 DEF IsBasicAuth, HasFields, BasicAuth_To_v1alpha1, BasicAuth_To_v1alpha2

\* So does OAuth, an auth style of zero included.
LEMMA OAuthRoundTrip ==
    ASSUME NEW in, IsOAuth(in)
    PROVE  OAuth_To_v1alpha1(OAuth_To_v1alpha2(in)) = in
<1>1. SecretSource_To_v1alpha1(SecretSource_To_v1alpha2(in.source)) = in.source
  BY SourceRoundTrip DEF IsOAuth
<1> QED
  BY <1>1 DEF IsOAuth, HasFields, OAuth_To_v1alpha1, OAuth_To_v1alpha2,
     Convert_To_Pointer, Convert_Pointer_To_string, Deref, Pointer, Nil

\* So does an optional certificate.
LEMMA OptionalCertificateRoundTrip ==
    ASSUME NEW in, Optional(in, IsCertificate)
    PROVE  WhereSet(WhereSet(in, Certificate_To_v1alpha2), Certificate_To_v1alpha1) = in
  BY CertificateRoundTrip DEF Optional, WhereSet, Pointer, Nil

\* So does the TLS setting.
LEMMA TLSRoundTrip ==
    ASSUME NEW in, IsTLS(in)
    PROVE  TLS_To_v1alpha1(TLS_To_v1alpha2(in)) = in
<1>1. /\ WhereSet(WhereSet(in.caCert, Certificate_To_v1alpha2), Certificate_To_v1alpha1) = in.caCert
      /\ WhereSet(WhereSet(in.userCert, Certificate_To_v1alpha2), Certificate_To_v1alpha1) = in.userCert
  BY OptionalCertificateRoundTrip DEF IsTLS
<1> QED
  BY <1>1 DEF IsTLS, HasFields, TLS_To_v1alpha1, TLS_To_v1alpha2,
     Convert_To_Pointer, Convert_Pointer_To_bool, Deref, Pointer, Nil

\* So do the parts of a client configuration.
LEMMA OptionalPartsRoundTrip ==
    ASSUME NEW in
    PROVE  /\ Optional(in, IsBasicAuth) =>
                WhereSet(WhereSet(in, BasicAuth_To_v1alpha2), BasicAuth_To_v1alpha1) = in
           /\ Optional(in, IsOAuth) =>
                WhereSet(WhereSet(in, OAuth_To_v1alpha2), OAuth_To_v1alpha1) = in
           /\ Optional(in, IsTLS) =>
                WhereSet(WhereSet(in, TLS_To_v1alpha2), TLS_To_v1alpha1) = in
           /\ Optional(in, IsKubernetesAuth) =>
                WhereSet(WhereSet(in, KubernetesAuth_To_v1alpha2), KubernetesAuth_To_v1alpha1) = in
<1>1. Optional(in, IsBasicAuth) =>
          WhereSet(WhereSet(in, BasicAuth_To_v1alpha2), BasicAuth_To_v1alpha1) = in
  BY BasicAuthRoundTrip DEF Optional, WhereSet, Pointer, Nil
<1>2. Optional(in, IsOAuth) => WhereSet(WhereSet(in, OAuth_To_v1alpha2), OAuth_To_v1alpha1) = in
  BY OAuthRoundTrip DEF Optional, WhereSet, Pointer, Nil
<1>3. Optional(in, IsTLS) => WhereSet(WhereSet(in, TLS_To_v1alpha2), TLS_To_v1alpha1) = in
  BY TLSRoundTrip DEF Optional, WhereSet, Pointer, Nil
<1>4. ASSUME NEW k, IsKubernetesAuth(k)
      PROVE  KubernetesAuth_To_v1alpha1(KubernetesAuth_To_v1alpha2(k)) = k
  BY <1>4 DEF IsKubernetesAuth, HasFields, KubernetesAuth_To_v1alpha1, KubernetesAuth_To_v1alpha2,
     Convert_To_Pointer, Convert_Pointer_To_bool, Deref, Pointer, Nil
<1>5. Optional(in, IsKubernetesAuth) =>
          WhereSet(WhereSet(in, KubernetesAuth_To_v1alpha2), KubernetesAuth_To_v1alpha1) = in
  BY <1>4 DEF Optional, WhereSet, Pointer, Nil
<1> QED
  BY <1>1, <1>2, <1>3, <1>5

\* So does a client configuration.
LEMMA ClientRoundTrip ==
    ASSUME NEW in, IsClient(in)
    PROVE  Client_To_v1alpha1(Client_To_v1alpha2(in)) = in
<1>1. WhereSet(WhereSet(in.basicAuth, BasicAuth_To_v1alpha2), BasicAuth_To_v1alpha1) = in.basicAuth
  BY OptionalPartsRoundTrip DEF IsClient
<1>2. WhereSet(WhereSet(in.oauth, OAuth_To_v1alpha2), OAuth_To_v1alpha1) = in.oauth
  BY OptionalPartsRoundTrip DEF IsClient
<1>3. WhereSet(WhereSet(in.tls, TLS_To_v1alpha2), TLS_To_v1alpha1) = in.tls
  BY OptionalPartsRoundTrip DEF IsClient
<1>4. WhereSet(WhereSet(in.kubernetesAuth, KubernetesAuth_To_v1alpha2), KubernetesAuth_To_v1alpha1)
          = in.kubernetesAuth
  BY OptionalPartsRoundTrip DEF IsClient
<1> QED
  BY <1>1, <1>2, <1>3, <1>4 DEF IsClient, HasFields, Client_To_v1alpha1, Client_To_v1alpha2

\* So does a storage configuration: no class and no size makes no claim, and no
\* claim reads as no class and no size.
LEMMA StorageRoundTrip ==
    ASSUME NEW in, IsStorageConfiguration(in)
    PROVE  StorageConfiguration_To_v1alpha1(StorageConfiguration_To_v1alpha2(in)) = in
<1>1. CASE in.storageClass = Nil /\ in.size = 0
  <2>1. StorageConfiguration_To_v1alpha2(in).pvcTemplate = Nil
    BY <1>1 DEF StorageConfiguration_To_v1alpha2
  <2> QED
    BY <1>1, <2>1 DEF StorageConfiguration_To_v1alpha1, IsStorageConfiguration, HasFields
<1>2. CASE ~ (in.storageClass = Nil /\ in.size = 0)
  <2> DEFINE pvc == [storageClassName |-> in.storageClass,
                     requests |-> IF in.size # 0 THEN Pointer(in.size) ELSE Nil, accessModes |-> Nil]
  <2>1. StorageConfiguration_To_v1alpha2(in).pvcTemplate = Pointer(pvc)
    BY <1>2 DEF StorageConfiguration_To_v1alpha2
  <2>2. Pointer(pvc) # Nil /\ Pointer(pvc)[1] = pvc
    BY DEF Pointer, Nil
  <2>3. pvc.storageClassName = in.storageClass /\ Deref(pvc.requests, 0) = in.size
    BY DEF Deref, Pointer, Nil
  <2> HIDE DEF pvc
  <2>4. StorageConfiguration_To_v1alpha1(StorageConfiguration_To_v1alpha2(in))
            = [storageClass |-> in.storageClass, size |-> in.size]
    BY <2>1, <2>2, <2>3 DEF StorageConfiguration_To_v1alpha1
  <2> QED
    BY <2>4 DEF IsStorageConfiguration, HasFields
<1> QED
  BY <1>1, <1>2

\* So do the optional parts of a Perses spec.
LEMMA OptionalFieldsRoundTrip ==
    ASSUME NEW in
    PROVE  /\ Optional(in, IsClient) =>
                WhereSet(WhereSet(in, Client_To_v1alpha2), Client_To_v1alpha1) = in
           /\ Optional(in, IsStorageConfiguration) =>
                WhereSet(WhereSet(in, StorageConfiguration_To_v1alpha2), StorageConfiguration_To_v1alpha1) = in
           /\ Optional(in, IsMetadata) =>
                WhereSet(WhereSet(in, Metadata_To_v1alpha2), Metadata_To_v1alpha1) = in
           /\ Optional(in, IsPersesService) =>
                WhereSet(WhereSet(in, PersesService_To_v1alpha2), PersesService_To_v1alpha1) = in
<1>1. Optional(in, IsClient) => WhereSet(WhereSet(in, Client_To_v1alpha2), Client_To_v1alpha1) = in
  BY ClientRoundTrip DEF Optional, WhereSet, Pointer, Nil
<1>2. Optional(in, IsStorageConfiguration) =>
          WhereSet(WhereSet(in, StorageConfiguration_To_v1alpha2), StorageConfiguration_To_v1alpha1) = in
  BY StorageRoundTrip DEF Optional, WhereSet, Pointer, Nil
<1>3. ASSUME NEW m, IsMetadata(m)
      PROVE  Metadata_To_v1alpha1(Metadata_To_v1alpha2(m)) = m
  BY <1>3 DEF IsMetadata, HasFields, Metadata_To_v1alpha1, Metadata_To_v1alpha2
<1>4. ASSUME NEW m, IsPersesService(m)
      PROVE  PersesService_To_v1alpha1(PersesService_To_v1alpha2(m)) = m
  BY <1>4 DEF IsPersesService, HasFields, PersesService_To_v1alpha1, PersesService_To_v1alpha2,
     Convert_To_Pointer, Convert_Pointer_To_string, Deref, Pointer, Nil
<1>5. Optional(in, IsMetadata) =>
          WhereSet(WhereSet(in, Metadata_To_v1alpha2), Metadata_To_v1alpha1) = in
  BY <1>3 DEF Optional, WhereSet, Pointer, Nil
<1>6. Optional(in, IsPersesService) =>
          WhereSet(WhereSet(in, PersesService_To_v1alpha2), PersesService_To_v1alpha1) = in
  BY <1>4 DEF Optional, WhereSet, Pointer, Nil
<1> QED
  BY <1>1, <1>2, <1>5, <1>6

\* A whole Perses spec survives the trip through the hub.
LEMMA PersesRoundTrip ==
    ASSUME NEW in, V1SpecOK("Perses", in)
    PROVE  PersesSpec_To_v1alpha1(PersesSpec_To_v1alpha2(in)) = in
<1>a. V1Fields["Perses"] = PersesSpecFields
  BY DEF V1Fields
<1>b. in = [f \in PersesSpecFields |-> in[f]] /\ \A f \in PersesSpecFields : IsSpecField(f, in[f])
  BY <1>a DEF V1SpecOK, HasFields
<1>c. /\ Optional(in.metadata, IsMetadata) /\ Optional(in.client, IsClient)
      /\ Optional(in.service, IsPersesService) /\ Optional(in.tls, IsTLS)
      /\ Optional(in.storage, IsStorageConfiguration)
  BY <1>b DEF PersesSpecFields, IsSpecField
<1>1. WhereSet(WhereSet(in.metadata, Metadata_To_v1alpha2), Metadata_To_v1alpha1) = in.metadata
  BY <1>c, OptionalFieldsRoundTrip
<1>2. WhereSet(WhereSet(in.client, Client_To_v1alpha2), Client_To_v1alpha1) = in.client
  BY <1>c, OptionalFieldsRoundTrip
<1>3. WhereSet(WhereSet(in.service, PersesService_To_v1alpha2), PersesService_To_v1alpha1) = in.service
  BY <1>c, OptionalFieldsRoundTrip
<1>4. WhereSet(WhereSet(in.tls, TLS_To_v1alpha2), TLS_To_v1alpha1) = in.tls
  BY <1>c, OptionalPartsRoundTrip
<1>5. WhereSet(WhereSet(in.storage, StorageConfiguration_To_v1alpha2), StorageConfiguration_To_v1alpha1)
          = in.storage
  BY <1>c, OptionalFieldsRoundTrip
<1>6. PersesSpec_To_v1alpha1(PersesSpec_To_v1alpha2(in)) =
        [metadata |-> in.metadata, client |-> in.client, config |-> in.config, args |-> in.args,
         containerPort |-> in.containerPort, replicas |-> in.replicas, scheduling |-> in.scheduling,
         image |-> in.image, service |-> in.service, probes |-> in.probes, tls |-> in.tls,
         storage |-> in.storage, serviceAccountName |-> in.serviceAccountName]
  BY <1>1, <1>2, <1>3, <1>4, <1>5 DEF PersesSpec_To_v1alpha1, PersesSpec_To_v1alpha2,
     Convert_To_Pointer, Convert_Pointer_To_string, Convert_Pointer_To_int32, Deref, Pointer, Nil
<1> QED
  BY <1>b, <1>6 DEF PersesSpecFields

\* A dashboard spec has one field and keeps it.
LEMMA DashboardRoundTrip ==
    ASSUME NEW in, V1SpecOK("PersesDashboard", in)
    PROVE  DashboardSpec_To_v1alpha1(DashboardSpec_To_v1alpha2(in)) = in
<1>1. in = [f \in {"config"} |-> in[f]]
  BY DEF V1SpecOK, HasFields, V1Fields, DashboardSpecFields
<1> QED
  BY <1>1 DEF DashboardSpec_To_v1alpha1, DashboardSpec_To_v1alpha2

-----------------------------------------------------------------------------
(***************************************************************************)
(* What reaches etcd.                                                      *)
(***************************************************************************)
\* The three kinds.
LEMMA KindIsOne == ASSUME NEW k \in Kinds PROVE k \in {"Perses", "PersesDashboard", "PersesDatasource"}
  BY KindsAssumption

\* A converted object is made of its converted parts.
LEMMA ConvertParts ==
    ASSUME NEW obj, kind \in Kinds
    PROVE  /\ HasFields(ConvertTo(obj), {"meta", "spec", "status"})
           /\ ConvertTo(obj).spec = SpecTo(kind, obj.spec)
           /\ DOMAIN ConvertTo(obj).status = StatusFields(kind)
           /\ HasFields(ConvertFrom(obj), {"meta", "spec", "status"})
           /\ ConvertFrom(obj).spec = SpecFrom(kind, obj.spec)
<1>1. CASE kind = "Perses"
  BY <1>1 DEF ConvertTo, ConvertFrom, SpecTo, SpecFrom, StatusFields, HasFields,
     Perses_To_v1alpha2, Perses_To_v1alpha1, PersesStatus_To_v1alpha2
<1>2. CASE kind = "PersesDashboard"
  BY <1>2 DEF ConvertTo, ConvertFrom, SpecTo, SpecFrom, StatusFields, HasFields,
     PersesDashboard_To_v1alpha2, PersesDashboard_To_v1alpha1, DashboardStatus_To_v1alpha2
<1>3. CASE kind = "PersesDatasource"
  BY <1>3 DEF ConvertTo, ConvertFrom, SpecTo, SpecFrom, StatusFields, HasFields,
     PersesDatasource_To_v1alpha2, PersesDatasource_To_v1alpha1, DatasourceStatus_To_v1alpha2
<1> QED
  BY <1>1, <1>2, <1>3, KindIsOne

\* Every conversion to v1alpha1 makes structs of that version.
LEMMA ConvertedParts ==
    ASSUME NEW in
    PROVE  /\ IsMetadata(Metadata_To_v1alpha1(in)) /\ IsPersesService(PersesService_To_v1alpha1(in))
           /\ IsStorageConfiguration(StorageConfiguration_To_v1alpha1(in))
           /\ IsTLS(TLS_To_v1alpha1(in)) /\ IsClient(Client_To_v1alpha1(in))
<1>1. ASSUME NEW p PROVE IsSecretSource(SecretSource_To_v1alpha1(p))
  BY DEF IsSecretSource, SecretSource_To_v1alpha1, HasFields
<1>2. ASSUME NEW p PROVE IsCertificate(Certificate_To_v1alpha1(p))
  BY <1>1 DEF IsCertificate, Certificate_To_v1alpha1, HasFields
<1>3. ASSUME NEW p PROVE IsBasicAuth(BasicAuth_To_v1alpha1(p))
  BY <1>1 DEF IsBasicAuth, BasicAuth_To_v1alpha1, HasFields
<1>4. ASSUME NEW p PROVE IsOAuth(OAuth_To_v1alpha1(p))
  BY <1>1 DEF IsOAuth, OAuth_To_v1alpha1, HasFields
<1>5. ASSUME NEW p PROVE IsKubernetesAuth(KubernetesAuth_To_v1alpha1(p))
  BY DEF IsKubernetesAuth, KubernetesAuth_To_v1alpha1, HasFields
<1>6. ASSUME NEW p PROVE IsTLS(TLS_To_v1alpha1(p))
  <2>1. ASSUME NEW q PROVE Optional(WhereSet(q, Certificate_To_v1alpha1), IsCertificate)
    BY <1>2 DEF Optional, WhereSet, Pointer, Nil
  <2> QED
    BY <2>1 DEF IsTLS, TLS_To_v1alpha1, HasFields
<1>7. ASSUME NEW p PROVE IsClient(Client_To_v1alpha1(p))
  <2>1. ASSUME NEW q PROVE Optional(WhereSet(q, BasicAuth_To_v1alpha1), IsBasicAuth)
    BY <1>3 DEF Optional, WhereSet, Pointer, Nil
  <2>2. ASSUME NEW q PROVE Optional(WhereSet(q, OAuth_To_v1alpha1), IsOAuth)
    BY <1>4 DEF Optional, WhereSet, Pointer, Nil
  <2>3. ASSUME NEW q PROVE Optional(WhereSet(q, TLS_To_v1alpha1), IsTLS)
    BY <1>6 DEF Optional, WhereSet, Pointer, Nil
  <2>4. ASSUME NEW q PROVE Optional(WhereSet(q, KubernetesAuth_To_v1alpha1), IsKubernetesAuth)
    BY <1>5 DEF Optional, WhereSet, Pointer, Nil
  <2> QED
    BY <2>1, <2>2, <2>3, <2>4 DEF IsClient, Client_To_v1alpha1, HasFields
<1>8. IsMetadata(Metadata_To_v1alpha1(in)) /\ IsPersesService(PersesService_To_v1alpha1(in))
  BY DEF IsMetadata, Metadata_To_v1alpha1, IsPersesService, PersesService_To_v1alpha1, HasFields
<1>9. IsStorageConfiguration(StorageConfiguration_To_v1alpha1(in))
  BY DEF IsStorageConfiguration, StorageConfiguration_To_v1alpha1, HasFields
<1> QED
  BY <1>6, <1>7, <1>8, <1>9

\* The same for the optional ones.
LEMMA ConvertedOptionals ==
    ASSUME NEW in
    PROVE  /\ Optional(WhereSet(in, Metadata_To_v1alpha1), IsMetadata)
           /\ Optional(WhereSet(in, PersesService_To_v1alpha1), IsPersesService)
           /\ Optional(WhereSet(in, StorageConfiguration_To_v1alpha1), IsStorageConfiguration)
           /\ Optional(WhereSet(in, TLS_To_v1alpha1), IsTLS)
           /\ Optional(WhereSet(in, Client_To_v1alpha1), IsClient)
<1>1. /\ Optional(WhereSet(in, Metadata_To_v1alpha1), IsMetadata)
      /\ Optional(WhereSet(in, PersesService_To_v1alpha1), IsPersesService)
  BY ConvertedParts DEF Optional, WhereSet, Pointer, Nil
<1>2. Optional(WhereSet(in, StorageConfiguration_To_v1alpha1), IsStorageConfiguration)
  BY ConvertedParts DEF Optional, WhereSet, Pointer, Nil
<1>3. /\ Optional(WhereSet(in, TLS_To_v1alpha1), IsTLS)
      /\ Optional(WhereSet(in, Client_To_v1alpha1), IsClient)
  BY ConvertedParts DEF Optional, WhereSet, Pointer, Nil
<1> QED
  BY <1>1, <1>2, <1>3

\* The conversions copy where a certificate is from.
LEMMA SourceKept ==
    ASSUME NEW in, Optional(in, UserCertTyped)
    PROVE  /\ Optional(WhereSet(in, TLS_To_v1alpha2), UserCertTyped)
           /\ Optional(WhereSet(in, TLS_To_v1alpha1), UserCertTyped)
<1>1. ASSUME NEW c, SourceTyped(c)
      PROVE  SourceTyped(Certificate_To_v1alpha2(c)) /\ SourceTyped(Certificate_To_v1alpha1(c))
  BY <1>1 DEF SourceTyped, Certificate_To_v1alpha2, Certificate_To_v1alpha1,
     SecretSource_To_v1alpha2, SecretSource_To_v1alpha1
<1>2. ASSUME NEW p, Optional(p, SourceTyped)
      PROVE  /\ Optional(WhereSet(p, Certificate_To_v1alpha2), SourceTyped)
             /\ Optional(WhereSet(p, Certificate_To_v1alpha1), SourceTyped)
  BY <1>1, <1>2 DEF Optional, WhereSet, Pointer, Nil
<1>3. ASSUME NEW t, UserCertTyped(t)
      PROVE  UserCertTyped(TLS_To_v1alpha2(t)) /\ UserCertTyped(TLS_To_v1alpha1(t))
  BY <1>2, <1>3 DEF UserCertTyped, TLS_To_v1alpha2, TLS_To_v1alpha1
<1> QED
  BY <1>3 DEF Optional, WhereSet, Pointer, Nil

\* A field no rule is about may hold anything.
LEMMA FreeField ==
    ASSUME NEW f, NEW v, f \notin {"args", "volumes", "volumeMounts", "provisioning", "tls"}
    PROVE  SchemaField(f, v) /\ (f # "storage" => HubField(f, v))
  BY DEF HubField, SchemaField

\* Outside the storage the hub asks what both versions ask.
LEMMA SharedField == ASSUME NEW f, NEW v, f # "storage" PROVE HubField(f, v) <=> SchemaField(f, v)
  BY DEF HubField

\* What the webhook makes of a storage is one of the hub.
LEMMA StorageToHub == ASSUME NEW in PROVE Optional(WhereSet(in, StorageConfiguration_To_v1alpha2), IsHubStorage)
<1>1. ASSUME NEW st PROVE IsHubStorage(StorageConfiguration_To_v1alpha2(st))
  <2>1. PICK pvc : pvc = [storageClassName |-> st.storageClass,
                          requests |-> IF st.size # 0 THEN Pointer(st.size) ELSE Nil,
                          accessModes |-> Nil]
    OBVIOUS
  <2>2. IsClaim(pvc)
    BY <2>1 DEF IsClaim, HasFields, IsPointer, Pointer, Nil
  <2>3. PICK p : p = IF st.storageClass = Nil /\ st.size = 0 THEN Nil ELSE Pointer(pvc)
    OBVIOUS
  <2>4. Optional(p, IsClaim)
    BY <2>2, <2>3 DEF Optional, Pointer, Nil
  <2>5. StorageConfiguration_To_v1alpha2(st) = [emptyDir |-> Nil, pvcTemplate |-> p]
    BY <2>1, <2>3 DEF StorageConfiguration_To_v1alpha2
  <2> QED
    BY <2>4, <2>5 DEF IsHubStorage, HasFields
<1> QED
  BY <1>1 DEF Optional, WhereSet, Pointer, Nil

\* What the webhook stores for a spec a v1alpha1 client may send is a spec of the hub,
\* without volumes and mounts of the user.
LEMMA ToHub ==
    ASSUME NEW k \in Kinds, NEW in, V1SpecOK(k, in)
    PROVE  /\ V2SpecOK(k, SpecTo(k, in))
           /\ k = "Perses" => /\ SpecTo(k, in).volumes = <<>> /\ SpecTo(k, in).volumeMounts = <<>>
                              /\ SpecTo(k, in).containerPort = Pointer(in.containerPort)
<1>1. CASE k = "Perses"
  <2> DEFINE out == PersesSpec_To_v1alpha2(in)
  <2>1. SpecTo(k, in) = out
    BY <1>1 DEF SpecTo
  <2>2. V2Fields[k] = PersesSpecFields \cup DOMAIN HubOnly /\ V1Fields[k] = PersesSpecFields
    BY <1>1 DEF V2Fields, V1Fields
  <2>3. DOMAIN HubOnly = {"resources", "priorityClassName", "securityContexts", "log",
                          "provisioning", "volumes", "volumeMounts", "env"}
    BY DEF HubOnly
  <2>4. HasFields(out, V2Fields[k])
    BY <2>2, <2>3 DEF HasFields, PersesSpecFields, PersesSpec_To_v1alpha2
  <2>5. /\ out.args = in.args /\ out.volumes = <<>> /\ out.volumeMounts = <<>>
        /\ out.provisioning = Nil /\ out.tls = WhereSet(in.tls, TLS_To_v1alpha2)
        /\ out.storage = WhereSet(in.storage, StorageConfiguration_To_v1alpha2)
        /\ out.containerPort = Pointer(in.containerPort)
    BY DEF PersesSpec_To_v1alpha2, HubOnly, Convert_To_Pointer
  <2>6. SchemaField("args", in.args) /\ SchemaField("tls", in.tls)
    BY <2>2 DEF V1SpecOK, PersesSpecFields
  <2> HIDE DEF out
  <2>7. HubField("args", out.args)
    BY <2>5, <2>6, SharedField
  <2>8. HubField("tls", out.tls)
    BY <2>5, <2>6, SourceKept DEF HubField, SchemaField
  <2>9. IsList(<<>>)
    BY DEF IsList
  <2>10. HubField("volumes", out.volumes) /\ HubField("volumeMounts", out.volumeMounts)
    BY <2>5, <2>9 DEF HubField, SchemaField
  <2>11. HubField("provisioning", out.provisioning)
    BY <2>5 DEF HubField, SchemaField, Optional
  <2>12. HubField("storage", out.storage)
    BY <2>5, StorageToHub DEF HubField, SchemaField
  <2>13. \A f \in V2Fields[k] : HubField(f, out[f])
    BY <2>7, <2>8, <2>10, <2>11, <2>12, FreeField
  <2> QED
    BY <2>1, <2>4, <2>5, <2>13 DEF V2SpecOK
<1>2. CASE k = "PersesDashboard"
  <2>1. HasFields(SpecTo(k, in), V2Fields[k])
    BY <1>2 DEF SpecTo, HasFields, V2Fields, DashboardSpecFields, DashboardSpec_To_v1alpha2
  <2> QED
    BY <1>2, <2>1 DEF V2SpecOK
<1>3. CASE k = "PersesDatasource"
  <2>1. HasFields(SpecTo(k, in), V2Fields[k])
    BY <1>3 DEF SpecTo, HasFields, V2Fields, DatasourceSpecFields, DatasourceSpec_To_v1alpha2
  <2> QED
    BY <1>3, <2>1 DEF V2SpecOK
<1> QED
  BY <1>1, <1>2, <1>3, KindIsOne

\* The fields of a Perses that a rule is about.
LEMMA HubFields ==
    ASSUME NEW spec, V2SpecOK("Perses", spec)
    PROVE  /\ HubField("args", spec.args) /\ HubField("tls", spec.tls)
           /\ HubField("storage", spec.storage) /\ HubField("provisioning", spec.provisioning)
           /\ HubField("volumes", spec.volumes) /\ HubField("volumeMounts", spec.volumeMounts)
  BY DEF V2SpecOK, V2Fields, PersesSpecFields, HubOnly

\* What a v1alpha1 client reads of a spec of the hub is a spec it may send.
LEMMA FromHub ==
    ASSUME NEW k \in Kinds, NEW in, V2SpecOK(k, in)
    PROVE  V1SpecOK(k, SpecFrom(k, in))
<1>1. CASE k = "Perses"
  <2> DEFINE out == PersesSpec_To_v1alpha1(in)
  <2>1. SpecFrom(k, in) = out
    BY <1>1 DEF SpecFrom
  <2>2. V2Fields[k] = PersesSpecFields \cup DOMAIN HubOnly /\ V1Fields[k] = PersesSpecFields
    BY <1>1 DEF V2Fields, V1Fields
  <2>3. HasFields(out, PersesSpecFields)
    BY DEF HasFields, PersesSpecFields, PersesSpec_To_v1alpha1
  <2>4. /\ out.args = in.args
        /\ out.metadata = WhereSet(in.metadata, Metadata_To_v1alpha1)
        /\ out.client = WhereSet(in.client, Client_To_v1alpha1)
        /\ out.service = WhereSet(in.service, PersesService_To_v1alpha1)
        /\ out.tls = WhereSet(in.tls, TLS_To_v1alpha1)
        /\ out.storage = WhereSet(in.storage, StorageConfiguration_To_v1alpha1)
    BY DEF PersesSpec_To_v1alpha1
  <2>5. SchemaField("args", in.args) /\ SchemaField("tls", in.tls)
    BY <1>1, <2>2, SharedField DEF V2SpecOK, PersesSpecFields
  <2> HIDE DEF out
  <2>6. SchemaField("args", out.args)
    BY <2>4, <2>5
  <2>7. SchemaField("tls", out.tls)
    BY <2>4, <2>5, SourceKept DEF SchemaField
  <2>8. \A f \in PersesSpecFields : SchemaField(f, out[f])
    BY <2>6, <2>7, FreeField DEF PersesSpecFields
  <2>9. /\ Optional(out.metadata, IsMetadata) /\ Optional(out.client, IsClient)
        /\ Optional(out.service, IsPersesService) /\ Optional(out.tls, IsTLS)
        /\ Optional(out.storage, IsStorageConfiguration)
    BY <2>4, ConvertedOptionals
  <2>10. \A f \in PersesSpecFields : IsSpecField(f, out[f])
    BY <2>9 DEF IsSpecField
  <2> QED
    BY <2>1, <2>2, <2>3, <2>8, <2>10 DEF V1SpecOK
<1>2. CASE k = "PersesDashboard"
  <2>1. HasFields(SpecFrom(k, in), V1Fields[k])
    BY <1>2 DEF SpecFrom, HasFields, V1Fields, DashboardSpecFields, DashboardSpec_To_v1alpha1
  <2>2. V1Fields[k] = {"config"}
    BY <1>2 DEF V1Fields, DashboardSpecFields
  <2>3. IsSpecField("config", SpecFrom(k, in).config)
    BY DEF IsSpecField
  <2> QED
    BY <2>1, <2>2, <2>3, FreeField DEF V1SpecOK
<1>3. CASE k = "PersesDatasource"
  <2>1. HasFields(SpecFrom(k, in), V1Fields[k]) /\ SpecFrom(k, in).client = Nil
    BY <1>3 DEF SpecFrom, HasFields, V1Fields, DatasourceSpecFields, DatasourceSpec_To_v1alpha1
  <2>2. V1Fields[k] = {"config", "client"}
    BY <1>3 DEF V1Fields, DatasourceSpecFields
  <2>3. IsSpecField("config", SpecFrom(k, in).config) /\ IsSpecField("client", SpecFrom(k, in).client)
    BY <2>1 DEF IsSpecField, Optional
  <2> QED
    BY <2>1, <2>2, <2>3, FreeField DEF V1SpecOK
<1> QED
  BY <1>1, <1>2, <1>3, KindIsOne

\* Setting a field to a value its schema allows keeps a spec one of its version.
LEMMA EditV1 ==
    ASSUME NEW k \in Kinds, NEW in, V1SpecOK(k, in), NEW f, NEW v, IsSpecField(f, v), SchemaField(f, v)
    PROVE  V1SpecOK(k, [in EXCEPT ![f] = v])
<1> DEFINE out == [in EXCEPT ![f] = v]
<1>1. in = [g \in V1Fields[k] |-> in[g]]
  BY DEF V1SpecOK, HasFields
<1>2. out = [g \in V1Fields[k] |-> IF g = f THEN v ELSE in[g]]
  BY <1>1
<1>3. \A g \in V1Fields[k] : IsSpecField(g, in[g]) /\ SchemaField(g, in[g])
  BY DEF V1SpecOK
<1>4. \A g \in V1Fields[k] : IsSpecField(g, out[g]) /\ SchemaField(g, out[g])
  BY <1>2, <1>3
<1>5. HasFields(out, V1Fields[k])
  BY <1>2 DEF HasFields
<1> QED
  BY <1>4, <1>5 DEF V1SpecOK

\* The same for a spec of the hub.
LEMMA EditV2 ==
    ASSUME NEW k \in Kinds, NEW in, V2SpecOK(k, in), NEW f, NEW v, HubField(f, v)
    PROVE  V2SpecOK(k, [in EXCEPT ![f] = v])
<1> DEFINE out == [in EXCEPT ![f] = v]
<1>1. in = [g \in V2Fields[k] |-> in[g]]
  BY DEF V2SpecOK, HasFields
<1>2. out = [g \in V2Fields[k] |-> IF g = f THEN v ELSE in[g]]
  BY <1>1
<1>3. k = "Perses" => \A g \in V2Fields[k] : HubField(g, out[g])
  BY <1>2 DEF V2SpecOK
<1>4. HasFields(out, V2Fields[k])
  BY <1>2 DEF HasFields
<1> QED
  BY <1>3, <1>4 DEF V2SpecOK

\* The defaults of the schema are values of the schema.
LEMMA DefaultedV1 ==
    ASSUME kind \in Kinds, NEW in, V1SpecOK(kind, in)
    PROVE  /\ V1SpecOK(kind, DefaultV1(in)) /\ DefaultV1(DefaultV1(in)) = DefaultV1(in)
           /\ kind = "Perses" => DefaultV1(in).containerPort # 0
<1>1. CASE kind # "Perses"
  BY <1>1 DEF DefaultV1
<1>2. CASE kind = "Perses"
  <2> DEFINE port == IF in.containerPort = 0 THEN DefaultContainerPort ELSE in.containerPort
             storage == IF in.storage = Nil THEN Pointer([storageClass |-> Nil, size |-> 1])
                                            ELSE in.storage
             mid == [in EXCEPT !["containerPort"] = port]
  <2>1. in = [g \in PersesSpecFields |-> in[g]] /\ IsSpecField("storage", in.storage)
    BY <1>2 DEF V1SpecOK, HasFields, V1Fields, PersesSpecFields
  <2>2. IsSpecField("containerPort", port) /\ SchemaField("containerPort", port)
    BY FreeField DEF IsSpecField
  <2>3. Optional(Pointer([storageClass |-> Nil, size |-> 1]), IsStorageConfiguration)
    BY DEF Optional, Pointer, IsStorageConfiguration, HasFields
  <2>4. IsSpecField("storage", storage) /\ SchemaField("storage", storage)
    BY <2>1, <2>3, FreeField DEF IsSpecField
  <2>5. V1SpecOK(kind, mid)
    BY <2>2, EditV1
  <2>6. V1SpecOK(kind, [mid EXCEPT !["storage"] = storage])
    <3> HIDE DEF mid, storage
    <3> QED
      BY <2>4, <2>5, EditV1
  <2>7. DefaultV1(in) = [mid EXCEPT !["storage"] = storage]
    BY <1>2, <2>1 DEF DefaultV1, PersesSpecFields
  <2>8. PICK d : d = [mid EXCEPT !["storage"] = storage]
    OBVIOUS
  <2>9. d = [g \in PersesSpecFields |-> d[g]] /\ d.containerPort = port /\ d.storage = storage
    BY <2>1, <2>8 DEF PersesSpecFields
  <2>10. port # 0 /\ storage # Nil
    BY DEF DefaultContainerPort, Pointer, Nil
  <2> HIDE DEF port, storage, mid
  <2>11. DefaultV1(d) = d
    BY <1>2, <2>9, <2>10 DEF DefaultV1
  <2> QED
    BY <2>6, <2>7, <2>8, <2>9, <2>10, <2>11
<1> QED
  BY <1>1, <1>2

-----------------------------------------------------------------------------
(***************************************************************************)
(* The inductive invariant: what is stored is an object of the hub that    *)
(* passed the rules on volumes and mounts, and a remembered v1alpha1 spec  *)
(* is the one it was converted from.                                       *)
(***************************************************************************)
\* The invariant ApiInv without the part of TypeOK that follows from the rest.
StoredInv ==
    /\ kind \in Kinds
    /\ op \in OperatorFlags
    /\ writes \in 0..MaxWrites
    /\ stored # Nil => stored = Pointer(stored[1]) /\ HubObject(kind, stored[1])
    /\ written # Nil =>
          /\ stored # Nil
          /\ written = Pointer(written[1])
          /\ V1SpecOK(kind, written[1])
          /\ DefaultV1(written[1]) = written[1]
          /\ stored[1].spec = SpecTo(kind, written[1])

\* A v1alpha1 write keeps the invariant.
LEMMA StoreV1Step ==
    ASSUME StoredInv, NEW obj, HasFields(obj, {"meta", "spec", "status"}), NEW in, V1SpecOK(kind, in),
           StoreV1(obj, in)
    PROVE  StoredInv'
<1> DEFINE sent == DefaultV1(in)
           request == [obj EXCEPT !.spec = sent]
<1>1. kind \in Kinds /\ MaxWrites \in Nat /\ writes \in 0..MaxWrites /\ op \in OperatorFlags
  BY MaxWritesAssumption DEF StoredInv
<1>2. /\ writes' \in 0..MaxWrites /\ kind' = kind /\ op' = op
      /\ stored' = Pointer(ConvertTo(request)) /\ written' = Pointer(sent)
  BY <1>1 DEF StoreV1
<1>3. /\ V1SpecOK(kind, sent) /\ DefaultV1(sent) = sent
      /\ kind = "Perses" => sent.containerPort # 0
  BY <1>1, DefaultedV1
<1>4. request.spec = sent
  BY DEF HasFields
<1> HIDE DEF sent, request
<1>5. PICK out : out = ConvertTo(request)
  OBVIOUS
<1>6. /\ HasFields(out, {"meta", "spec", "status"}) /\ out.spec = SpecTo(kind, sent)
      /\ DOMAIN out.status = StatusFields(kind)
  BY <1>1, <1>4, <1>5, ConvertParts
<1>7. /\ V2SpecOK(kind, out.spec)
      /\ kind = "Perses" => /\ out.spec.volumes = <<>> /\ out.spec.volumeMounts = <<>>
                             /\ out.spec.containerPort = Pointer(sent.containerPort)
  BY <1>1, <1>3, <1>6, ToHub
<1>8. kind = "Perses" => SpecVolumesValid(out.spec) /\ SpecVolumeMountsValid(out.spec)
  BY <1>7 DEF SpecVolumesValid, SpecVolumeMountsValid, Elements
<1>port. kind = "Perses" => out.spec.containerPort[1] # 0
  BY <1>3, <1>7 DEF Pointer
<1>9. HubObject(kind, out)
  BY <1>6, <1>7, <1>8, <1>port DEF HubObject
<1>10. stored' # Nil /\ stored'[1] = out /\ stored' = Pointer(stored'[1])
  BY <1>2, <1>5 DEF Pointer, Nil
<1>11. written'[1] = sent /\ written' = Pointer(written'[1])
  BY <1>2 DEF Pointer
<1>12. DefaultV1(written[1])' = DefaultV1(sent)
  BY <1>2, <1>11 DEF DefaultV1
<1> QED
  BY <1>1, <1>2, <1>3, <1>6, <1>9, <1>10, <1>11, <1>12 DEF StoredInv

\* A v1alpha2 write keeps the invariant.
LEMMA StoreV2Step ==
    ASSUME StoredInv, NEW obj, HasFields(obj, {"meta", "spec", "status"}),
           DOMAIN obj.status = StatusFields(kind), NEW in, V2SpecOK(kind, in), StoreV2(obj, in)
    PROVE  StoredInv'
<1> DEFINE out == [obj EXCEPT !.spec = in]
<1>1. kind \in Kinds /\ MaxWrites \in Nat /\ writes \in 0..MaxWrites /\ op \in OperatorFlags
  BY MaxWritesAssumption DEF StoredInv
<1>2. /\ writes' \in 0..MaxWrites /\ kind' = kind /\ op' = op
      /\ stored' = Pointer(out) /\ written' = Nil
  BY <1>1 DEF StoreV2
<1>3. /\ HasFields(out, {"meta", "spec", "status"}) /\ out.spec = in
      /\ DOMAIN out.status = StatusFields(kind)
  BY DEF HasFields
<1>4. kind = "Perses" => /\ in.containerPort # Nil => in.containerPort[1] # 0
                         /\ SpecVolumesValid(in) /\ SpecVolumeMountsValid(in)
  <2>1. kind = "Perses" => (ValidV2(in) <=> PersesSpecValid(in))
    BY DEF ValidV2
  <2>2. ValidV2(in)
    BY DEF StoreV2
  <2>3. PersesSpecValid(in) => /\ in.containerPort # Nil => in.containerPort[1] # 0
                               /\ SpecVolumesValid(in) /\ SpecVolumeMountsValid(in)
    BY DEF PersesSpecValid
  <2> QED
    BY <2>1, <2>2, <2>3
<1> HIDE DEF out
<1>5. HubObject(kind, out)
  BY <1>3, <1>4 DEF HubObject
<1>6. stored' # Nil /\ stored'[1] = out /\ stored' = Pointer(stored'[1])
  BY <1>2 DEF Pointer, Nil
<1> QED
  BY <1>1, <1>2, <1>5, <1>6 DEF StoredInv

\* Every step keeps the invariant.
LEMMA StoredInvNext == StoredInv /\ [Next]_vars => StoredInv'
<1> SUFFICES ASSUME StoredInv, [Next]_vars PROVE StoredInv'
  OBVIOUS
<1>a. kind \in Kinds
  BY DEF StoredInv
<1>1. CASE CreateV1
  <2>1. PICK in \in NewV1Specs[kind] : StoreV1(New(in, [conditions |-> Nil]), in)
    BY <1>1 DEF CreateV1
  <2>2. V1SpecOK(kind, in)
    BY <1>a, SchemaAssumption
  <2>3. PICK obj : obj = New(in, [conditions |-> Nil])
    OBVIOUS
  <2>4. HasFields(obj, {"meta", "spec", "status"})
    BY <2>3 DEF HasFields, New
  <2> QED
    BY <2>1, <2>2, <2>3, <2>4, StoreV1Step
<1>2. CASE CreateV2
  <2> DEFINE status == IF kind = "Perses" THEN [conditions |-> Nil, provisioning |-> Nil]
                                          ELSE [conditions |-> Nil]
  <2>1. PICK in \in NewV2Specs[kind] : StoreV2(New(in, status), in)
    BY <1>2 DEF CreateV2
  <2>2. V2SpecOK(kind, in)
    BY <1>a, SchemaAssumption
  <2>3. DOMAIN status = StatusFields(kind)
    BY DEF StatusFields
  <2> HIDE DEF status
  <2>4. PICK obj : obj = New(in, status)
    OBVIOUS
  <2>5. HasFields(obj, {"meta", "spec", "status"}) /\ DOMAIN obj.status = StatusFields(kind)
    BY <2>3, <2>4 DEF HasFields, New
  <2> QED
    BY <2>1, <2>2, <2>4, <2>5, StoreV2Step
<1>3. CASE UpdateV1
  <2>1. PICK obj : obj = ConvertFrom(stored[1])
    OBVIOUS
  <2>2. PICK edit \in V1Edits[kind] : StoreV1(obj, [obj.spec EXCEPT ![edit[1]] = edit[2]])
    BY <1>3, <2>1 DEF UpdateV1
  <2>3. HubObject(kind, stored[1])
    BY <1>3 DEF StoredInv, UpdateV1
  <2>4. HasFields(obj, {"meta", "spec", "status"}) /\ obj.spec = SpecFrom(kind, stored[1].spec)
    BY <1>a, <2>1, ConvertParts
  <2>5. V1SpecOK(kind, obj.spec)
    BY <1>a, <2>3, <2>4, FromHub DEF HubObject
  <2>6. IsSpecField(edit[1], edit[2]) /\ SchemaField(edit[1], edit[2])
    BY <1>a, SchemaAssumption
  <2>7. V1SpecOK(kind, [obj.spec EXCEPT ![edit[1]] = edit[2]])
    BY <1>a, <2>5, <2>6, EditV1
  <2> QED
    BY <2>2, <2>4, <2>7, StoreV1Step
<1>4. CASE UpdateV2
  <2>1. PICK obj : obj = stored[1]
    OBVIOUS
  <2>2. PICK edit \in V2Edits[kind] : StoreV2(obj, [obj.spec EXCEPT ![edit[1]] = edit[2]])
    BY <1>4, <2>1 DEF UpdateV2
  <2>3. /\ HasFields(obj, {"meta", "spec", "status"}) /\ V2SpecOK(kind, obj.spec)
        /\ DOMAIN obj.status = StatusFields(kind)
    BY <1>4, <2>1 DEF StoredInv, UpdateV2, HubObject
  <2>4. HubField(edit[1], edit[2])
    BY <1>a, SchemaAssumption
  <2>5. V2SpecOK(kind, [obj.spec EXCEPT ![edit[1]] = edit[2]])
    BY <1>a, <2>3, <2>4, EditV2
  <2> QED
    BY <2>2, <2>3, <2>5, StoreV2Step
<1>5. CASE Report
  <2> DEFINE status == IF kind = "Perses"
                          THEN [conditions |-> Pointer("Available"),
                                provisioning |-> stored[1].spec.provisioning]
                          ELSE [conditions |-> Pointer("Available")]
             out == [stored[1] EXCEPT !.status = status]
  <2>1. /\ stored # Nil /\ stored' = Pointer(out)
        /\ kind' = kind /\ op' = op /\ written' = written /\ writes' = writes
    BY <1>5 DEF Report
  <2>2. HubObject(kind, stored[1])
    BY <2>1 DEF StoredInv
  <2>3. DOMAIN status = StatusFields(kind)
    BY DEF StatusFields
  <2> HIDE DEF status
  <2>4. /\ HasFields(out, {"meta", "spec", "status"}) /\ out.spec = stored[1].spec
        /\ DOMAIN out.status = StatusFields(kind)
    BY <2>2, <2>3 DEF HubObject, HasFields
  <2> HIDE DEF out
  <2>5. HubObject(kind, out)
    BY <2>2, <2>4 DEF HubObject
  <2>6. stored' # Nil /\ stored'[1] = out /\ stored' = Pointer(stored'[1])
    BY <2>1 DEF Pointer, Nil
  <2>7. DefaultV1(written[1])' = DefaultV1(written[1])
    BY <2>1 DEF DefaultV1
  <2> QED
    BY <2>1, <2>4, <2>5, <2>6, <2>7 DEF StoredInv
<1>6. CASE UNCHANGED vars
  <2>1. DefaultV1(written[1])' = DefaultV1(written[1])
    BY <1>6 DEF vars, DefaultV1
  <2> QED
    BY <1>6, <2>1 DEF vars, StoredInv
<1> QED
  BY <1>1, <1>2, <1>3, <1>4, <1>5, <1>6 DEF Next

\* The types follow.
LEMMA StoredInvTypes == StoredInv => TypeOK
<1> SUFFICES ASSUME StoredInv PROVE TypeOK
  OBVIOUS
<1>1. stored = Nil \/ stored = Pointer(stored[1])
  BY DEF StoredInv
<1>2. written = Nil \/ written = Pointer(written[1])
  BY DEF StoredInv
<1>3. Len(stored) \in 0..1 /\ Len(written) \in 0..1
  BY <1>1, <1>2 DEF Pointer, Nil
<1>4. ASSUME stored # Nil
      PROVE  /\ DOMAIN stored[1] = {"meta", "spec", "status"}
             /\ DOMAIN stored[1].spec = DOMAIN ConvertTo(ConvertFrom(stored[1])).spec
             /\ DOMAIN stored[1].status = DOMAIN ConvertTo(ConvertFrom(stored[1])).status
  <2>1. kind \in Kinds /\ HubObject(kind, stored[1])
    BY <1>4 DEF StoredInv
  <2>2. PICK obj : obj = ConvertFrom(stored[1])
    OBVIOUS
  <2>3. obj.spec = SpecFrom(kind, stored[1].spec)
    BY <2>1, <2>2, ConvertParts
  <2>4. V2SpecOK(kind, SpecTo(kind, obj.spec))
    BY <2>1, <2>3, FromHub, ToHub DEF HubObject
  <2>5. /\ ConvertTo(obj).spec = SpecTo(kind, obj.spec)
        /\ DOMAIN ConvertTo(obj).status = StatusFields(kind)
    BY <2>1, ConvertParts
  <2>6. \A x, fields : HasFields(x, fields) => DOMAIN x = fields
    BY DEF HasFields
  <2> QED
    BY <2>1, <2>2, <2>4, <2>5, <2>6 DEF HubObject, V2SpecOK
<1> QED
  BY <1>3, <1>4 DEF StoredInv, TypeOK

\* So the two say the same.
LEMMA StoredInvIsApiInv == StoredInv <=> ApiInv
  BY StoredInvTypes DEF StoredInv, ApiInv, TypeOK

\* What is stored stays an object of the hub, whichever version wrote it.
THEOREM ApiInvariant == Spec => []ApiInv
<1>1. Init => StoredInv
  BY MaxWritesAssumption DEF Init, StoredInv
<1> QED
  BY <1>1, StoredInvNext, StoredInvIsApiInv, PTL DEF Spec

\* The variables keep their types: both versions' writes, in every order, leave an
\* object in etcd with exactly the fields the webhook gives one (ConvertTo, ConvertFrom).
THEOREM TypeCorrect == Spec => []TypeOK
<1>1. ApiInv => TypeOK
  BY DEF ApiInv
<1> QED
  BY <1>1, ApiInvariant, PTL

\* ConvertFrom undoes ConvertTo on every spec of a Perses or a dashboard.
LEMMA SpecRoundTrip ==
    ASSUME NEW k \in Kinds, k # "PersesDatasource", NEW in, V1SpecOK(k, in)
    PROVE  SpecFrom(k, SpecTo(k, in)) = in
<1>1. CASE k = "Perses"
  BY <1>1, PersesRoundTrip DEF SpecFrom, SpecTo
<1>2. CASE k = "PersesDashboard"
  BY <1>2, DashboardRoundTrip DEF SpecFrom, SpecTo
<1> QED
  BY <1>1, <1>2, KindIsOne

\* A v1alpha1 client that reads back a Perses or a dashboard before anyone else writes
\* it finds what it wrote, whatever it wrote: ConvertFrom undoes ConvertTo on every
\* spec of the version.  (It does not for a PersesDatasource with a client.)
THEOREM ReadsBack ==
    ASSUME "PersesDatasource" \notin Kinds
    PROVE  Spec => []ReadsBackWhatItWrote
<1>1. ApiInv => ReadsBackWhatItWrote
  <2> SUFFICES ASSUME ApiInv, written # Nil
               PROVE  ConvertFrom(stored[1]).spec = written[1]
    BY DEF ReadsBackWhatItWrote
  <2>1. /\ kind \in Kinds /\ stored[1].spec = SpecTo(kind, written[1])
        /\ V1SpecOK(kind, written[1])
    BY DEF ApiInv, TypeOK
  <2>2. ConvertFrom(stored[1]).spec = SpecFrom(kind, SpecTo(kind, written[1]))
    BY <2>1, ConvertParts
  <2> QED
    BY <2>1, <2>2, SpecRoundTrip
<1> QED
  BY <1>1, ApiInvariant, PTL

\* What the webhook loses of a datasource is its client and nothing else: every kind
\* reads back with the fields it was written with, that one excepted
\* (DatasourceSpec_To_v1alpha1).
OnlyClientIsLost ==
    written # Nil =>
        \A f \in V1Fields[kind] :
            (kind = "PersesDatasource" => f # "client") =>
                ConvertFrom(stored[1]).spec[f] = written[1][f]

\* It does so in every state.
THEOREM RestReadsBack == Spec => []OnlyClientIsLost
<1>1. ApiInv => OnlyClientIsLost
  <2> SUFFICES ASSUME ApiInv, written # Nil, NEW f \in V1Fields[kind],
                      kind = "PersesDatasource" => f # "client"
               PROVE  ConvertFrom(stored[1]).spec[f] = written[1][f]
    BY DEF OnlyClientIsLost
  <2>1. /\ kind \in Kinds /\ stored[1].spec = SpecTo(kind, written[1])
        /\ V1SpecOK(kind, written[1])
    BY DEF ApiInv, TypeOK
  <2>2. ConvertFrom(stored[1]).spec = SpecFrom(kind, SpecTo(kind, written[1]))
    BY <2>1, ConvertParts
  <2>3. CASE kind = "PersesDatasource"
    <3>1. f = "config"
      BY <2>3 DEF V1Fields, DatasourceSpecFields
    <3>2. SpecFrom(kind, SpecTo(kind, written[1])).config = written[1].config
      BY <2>3 DEF SpecFrom, SpecTo, DatasourceSpec_To_v1alpha1, DatasourceSpec_To_v1alpha2
    <3> QED
      BY <2>2, <3>1, <3>2
  <2>4. CASE kind # "PersesDatasource"
    BY <2>1, <2>2, <2>4, SpecRoundTrip
  <2> QED
    BY <2>3, <2>4
<1> QED
  BY <1>1, ApiInvariant, PTL

-----------------------------------------------------------------------------
(***************************************************************************)
(* Lists, by their elements.                                               *)
(***************************************************************************)

\* Whatever is a sequence of something is a sequence of its elements.
LEMMA SeqIsList ==
    ASSUME NEW S, NEW s \in Seq(S)
    PROVE  IsList(s)
  BY DEF IsList

\* Joining two lists joins their elements.
LEMMA ConcatElements ==
    ASSUME NEW s, NEW t, IsList(s), IsList(t)
    PROVE  IsList(s \o t) /\ Elements(s \o t) = Elements(s) \cup Elements(t)
<1>1. PICK S : S = Elements(s) \cup Elements(t)
  OBVIOUS
<1>2. s \in Seq(S) /\ t \in Seq(S)
  BY <1>1 DEF IsList, Elements
<1>3. s \o t \in Seq(S)
  BY <1>2
<1>4. IsList(s \o t)
  BY <1>3, SeqIsList
<1>5. /\ DOMAIN (s \o t) = 1..(Len(s) + Len(t)) /\ DOMAIN s = 1..Len(s) /\ DOMAIN t = 1..Len(t)
      /\ Len(s) \in Nat /\ Len(t) \in Nat
  BY <1>2
<1>6. /\ \A i \in DOMAIN s : (s \o t)[i] = s[i]
      /\ \A i \in DOMAIN t : (s \o t)[Len(s) + i] = t[i]
  BY <1>2
<1>7. Elements(s) \cup Elements(t) \subseteq Elements(s \o t)
  <2>1. ASSUME NEW i \in DOMAIN s PROVE s[i] \in Elements(s \o t)
    <3>1. i \in DOMAIN (s \o t)
      BY <1>5
    <3> QED
      BY <1>6, <3>1 DEF Elements
  <2>2. ASSUME NEW i \in DOMAIN t PROVE t[i] \in Elements(s \o t)
    <3>1. Len(s) + i \in DOMAIN (s \o t)
      BY <1>5
    <3> QED
      BY <1>6, <3>1 DEF Elements
  <2> QED
    BY <2>1, <2>2 DEF Elements
<1>8. Elements(s \o t) \subseteq Elements(s) \cup Elements(t)
  <2> SUFFICES ASSUME NEW i \in DOMAIN (s \o t) PROVE (s \o t)[i] \in Elements(s) \cup Elements(t)
    BY DEF Elements
  <2>1. CASE i \in DOMAIN s
    BY <1>6, <2>1 DEF Elements
  <2>2. CASE i \notin DOMAIN s
    <3>1. i - Len(s) \in DOMAIN t /\ Len(s) + (i - Len(s)) = i
      BY <1>5, <2>2
    <3> QED
      BY <1>6, <3>1 DEF Elements
  <2> QED
    BY <2>1, <2>2
<1> QED
  BY <1>4, <1>7, <1>8

\* Short lists.
LEMMA ShortLists ==
    ASSUME NEW x, NEW y
    PROVE  /\ IsList(<<>>) /\ Elements(<<>>) = {}
           /\ IsList(<<x>>) /\ Elements(<<x>>) = {x}
           /\ IsList(<<x, y>>) /\ Elements(<<x, y>>) = {x, y}
  BY DEF IsList, Elements

\* A part of a list that is there under a condition.
LEMMA PartElements ==
    ASSUME NEW s, IsList(s), NEW c \in BOOLEAN
    PROVE  IsList(When(c, s)) /\ Elements(When(c, s)) = IF c THEN Elements(s) ELSE {}
  BY ShortLists DEF When

\* Flags other than the listen address are not taken for it.
NotListening(args) == IsList(args) /\ \A a \in Elements(args) : a[1] # "listen-address"
LEMMA OtherFlags ==
    /\ NotListening(<<>>)
    /\ \A f, v : f # "listen-address" => NotListening(<< <<f, v>> >>)
    /\ \A f, v, g, w : f # "listen-address" /\ g # "listen-address" =>
          NotListening(<< <<f, v>>, <<g, w>> >>)
<1>1. NotListening(<<>>)
  BY ShortLists DEF NotListening
<1>2. ASSUME NEW f, NEW v, NEW g, NEW w, f # "listen-address", g # "listen-address"
      PROVE  NotListening(<< <<f, v>> >>) /\ NotListening(<< <<f, v>>, <<g, w>> >>)
  <2>1. PICK x, y : x = <<f, v>> /\ y = <<g, w>>
    OBVIOUS
  <2>2. x[1] # "listen-address" /\ y[1] # "listen-address"
    BY <1>2, <2>1
  <2>3. NotListening(<<x>>) /\ NotListening(<<x, y>>)
    BY <2>2, ShortLists DEF NotListening
  <2> QED
    BY <2>1, <2>3
<1>3. \A f, v : f # "listen-address" => NotListening(<< <<f, v>> >>)
  BY <1>2
<1> QED
  BY <1>1, <1>2, <1>3

\* The server's arguments name a listen address where the spec has a port, and that
\* port is the only one; they name the certificate where there is one.
LEMMA ListensOnPort ==
    ASSUME NEW spec, NEW flags, IsList(spec.args)
    PROVE  /\ LeavesPort(spec) => ListenPort(GetPersesArgs(spec, flags)) = Port(spec)
           /\ hasTLSConfiguration(spec) =>
                 <<"tls-cert-file", <<"tls", spec.tls[1].userCert[1].certPath>> >>
                    \in Elements(GetPersesArgs(spec, flags))
<1> DEFINE Listen(a) == a[1] = "listen-address"
           p1 == << <<"config", <<"etc", "perses", "config", "config.yaml">> >> >>
           listen == <<"listen-address", spec.containerPort[1]>>
           p2 == When(spec.containerPort # Nil, <<listen>>)
           cert == <<"tls-cert-file", <<"tls", spec.tls[1].userCert[1].certPath>> >>
           key == <<"tls-key-file", <<"tls", Deref(spec.tls[1].userCert[1].privateKeyPath, "")>> >>
           p3 == When(hasTLSConfiguration(spec), <<cert, key>>)
           version == <<"tls-min-version", k8sToPersesTLSVersion(flags.tlsMinVersion)>>
           p4 == When(flags.tlsConfigureOperands /\ flags.tlsMinVersion # "", <<version>>)
           suites == <<"tls-cipher-suites", flags.tlsCipherSuites>>
           p5 == When(flags.tlsConfigureOperands /\ flags.tlsCipherSuites # "", <<suites>>)
           log == <<"log", spec.log[1]>>
           p6 == When(spec.log # Nil, <<log>>)
           args == GetPersesArgs(spec, flags)
<1>1. NotListening(p1)
  BY OtherFlags
<1>2. IsList(p2) /\ Elements(p2) = IF spec.containerPort # Nil THEN {listen} ELSE {}
  BY ShortLists, PartElements
<1>3. NotListening(p3)
  <2>1. NotListening(<<cert, key>>)
    BY OtherFlags
  <2> QED
    BY <2>1, OtherFlags DEF When
<1>4. NotListening(p4)
  <2>1. NotListening(<<version>>)
    BY OtherFlags
  <2> QED
    BY <2>1, OtherFlags DEF When
<1>5. NotListening(p5)
  <2>1. NotListening(<<suites>>)
    BY OtherFlags
  <2> QED
    BY <2>1, OtherFlags DEF When
<1>6. NotListening(p6)
  <2>1. NotListening(<<log>>)
    BY OtherFlags
  <2> QED
    BY <2>1, OtherFlags DEF When
<1>7. LeavesPort(spec) => NotListening(spec.args)
  BY DEF LeavesPort, NotListening
<1>8. args = p1 \o p2 \o p3 \o p4 \o p5 \o p6 \o spec.args
  BY DEF GetPersesArgs
<1>9. Listen(listen) /\ listen[2] = spec.containerPort[1]
  BY SMTT(30)
<1>cert. hasTLSConfiguration(spec) => cert \in Elements(p3)
  <2>1. PICK c, k : c = cert /\ k = key
    OBVIOUS
  <2>2. Elements(<<c, k>>) = {c, k}
    BY ShortLists
  <2>3. hasTLSConfiguration(spec) => p3 = <<c, k>>
    BY <2>1 DEF When
  <2> QED
    BY <2>1, <2>2, <2>3
<1> HIDE DEF p1, p2, p3, p4, p5, p6, args, listen
<1>10. Elements(args) = Elements(p1) \cup Elements(p2) \cup Elements(p3) \cup Elements(p4)
                        \cup Elements(p5) \cup Elements(p6) \cup Elements(spec.args)
  <2>1. IsList(p1 \o p2) /\ Elements(p1 \o p2) = Elements(p1) \cup Elements(p2)
    BY <1>1, <1>2, ConcatElements DEF NotListening
  <2>2. /\ IsList(p1 \o p2 \o p3)
        /\ Elements(p1 \o p2 \o p3) = Elements(p1 \o p2) \cup Elements(p3)
    BY <2>1, <1>3, ConcatElements DEF NotListening
  <2>3. /\ IsList(p1 \o p2 \o p3 \o p4)
        /\ Elements(p1 \o p2 \o p3 \o p4) = Elements(p1 \o p2 \o p3) \cup Elements(p4)
    BY <2>2, <1>4, ConcatElements DEF NotListening
  <2>4. /\ IsList(p1 \o p2 \o p3 \o p4 \o p5)
        /\ Elements(p1 \o p2 \o p3 \o p4 \o p5) = Elements(p1 \o p2 \o p3 \o p4) \cup Elements(p5)
    BY <2>3, <1>5, ConcatElements DEF NotListening
  <2>5. /\ IsList(p1 \o p2 \o p3 \o p4 \o p5 \o p6)
        /\ Elements(p1 \o p2 \o p3 \o p4 \o p5 \o p6)
              = Elements(p1 \o p2 \o p3 \o p4 \o p5) \cup Elements(p6)
    BY <2>4, <1>6, ConcatElements DEF NotListening
  <2>6. Elements(args) = Elements(p1 \o p2 \o p3 \o p4 \o p5 \o p6) \cup Elements(spec.args)
    BY <2>5, <1>8, ConcatElements
  <2> QED
    BY <2>1, <2>2, <2>3, <2>4, <2>5, <2>6
<1>11. ASSUME LeavesPort(spec)
       PROVE  {a \in Elements(args) : Listen(a)} = IF spec.containerPort # Nil THEN {listen} ELSE {}
  BY <1>1, <1>2, <1>3, <1>4, <1>5, <1>6, <1>7, <1>9, <1>10, <1>11 DEF NotListening
<1>12. LeavesPort(spec) /\ spec.containerPort = Nil => ListenPort(args) = Port(spec)
  BY <1>11 DEF ListenPort, Port, Deref, args
<1>13. ASSUME LeavesPort(spec), spec.containerPort # Nil PROVE ListenPort(args) = Port(spec)
  <2>1. (CHOOSE a \in {listen} : TRUE) = listen
    OBVIOUS
  <2> QED
    BY <1>9, <1>11, <1>13, <2>1 DEF ListenPort, Port, Deref, args
<1>14. hasTLSConfiguration(spec) => cert \in Elements(args)
  BY <1>cert, <1>10
<1> QED
  BY <1>12, <1>13, <1>14 DEF args

\* The five places that read the port agree, for every setting of the operator and
\* every spec that was let in through either version and whose own arguments leave the
\* listen address alone: the server listens where the container, the probes, the
\* Service and the operator's own client expect it (GetPersesArgs, GetProbes,
\* createPersesService, buildClient).
THEOREM OnePort == Spec => []PortsAgree
<1>1. ApiInv => PortsAgree
  <2> SUFFICES ASSUME ApiInv, kind = "Perses", stored # Nil, LeavesPort(stored[1].spec)
               PROVE  PortsAgree
    BY Zenon DEF PortsAgree
  <2>1. PICK spec : spec = stored[1].spec
    OBVIOUS
  <2>2. V2SpecOK("Perses", spec)
    BY <2>1 DEF ApiInv, HubObject
  <2>3. IsList(spec.args)
    BY <2>2, HubFields DEF HubField, SchemaField
  <2>4. ListenPort(GetPersesArgs(spec, op)) = Port(spec)
    BY <2>1, <2>3, ListensOnPort
  <2> DEFINE template == PodTemplateSpec(Name, spec, op)
  <2>5. /\ template.args = GetPersesArgs(spec, op) /\ template.containerPort = Port(spec)
        /\ template.probes = GetProbes(spec)
    BY DEF PodTemplateSpec
  <2>6. \A p \in Elements(GetProbes(spec)) : p.port = Port(spec)
    <3>1. PICK probe : probe = [port |-> Port(spec), scheme |-> "http"]
      OBVIOUS
    <3>2. GetProbes(spec) = <<probe>> \/ GetProbes(spec) = <<>>
      BY <3>1 DEF GetProbes, When, Pointer
    <3>3. Elements(<<probe>>) = {probe} /\ Elements(<<>>) = {} /\ probe.port = Port(spec)
      BY <3>1, ShortLists
    <3> QED
      BY <3>2, <3>3
  <2>7. /\ createPersesService(Name, spec).targetPort = Port(spec)
        /\ createPersesService(Name, spec).port = Port(spec)
    BY DEF createPersesService
  <2>8. op.serverURL = Nil => ClientURL(Name, spec, op).port = Port(spec)
    BY DEF ClientURL
  <2> HIDE DEF template
  <2> QED
    BY <2>1, <2>4, <2>5, <2>6, <2>7, <2>8 DEF PortsAgree, template
<1> QED
  BY <1>1, ApiInvariant, PTL

-----------------------------------------------------------------------------
(***************************************************************************)
(* The volumes and mounts of a pod.                                        *)
(***************************************************************************)

\* No two entries of a list have the same value in field f.
Apart(s, f) == \A i, j \in DOMAIN s : s[i][f] = s[j][f] => i = j

\* A part of a list of volumes or mounts: its entries are told apart by field f, whose
\* values are among the keys.
Part(s, f, keys) == IsList(s) /\ Apart(s, f) /\ \A x \in Elements(s) : x[f] \in keys

\* Two lists whose entries do not share a value of the field join to one without
\* duplicates.
LEMMA ConcatApart ==
    ASSUME NEW s, NEW t, IsList(s), IsList(t), NEW f, Apart(s, f), Apart(t, f),
           \A x \in Elements(s), y \in Elements(t) : x[f] # y[f]
    PROVE  Apart(s \o t, f)
<1>1. PICK S : S = Elements(s) \cup Elements(t)
  OBVIOUS
<1>2. s \in Seq(S) /\ t \in Seq(S)
  BY <1>1 DEF IsList, Elements
<1>3. /\ DOMAIN (s \o t) = 1..(Len(s) + Len(t)) /\ DOMAIN s = 1..Len(s) /\ DOMAIN t = 1..Len(t)
      /\ Len(s) \in Nat /\ Len(t) \in Nat
  BY <1>2
<1>4. /\ \A i \in DOMAIN s : (s \o t)[i] = s[i]
      /\ \A i \in DOMAIN t : (s \o t)[Len(s) + i] = t[i]
  BY <1>2
<1>5. ASSUME NEW i \in DOMAIN (s \o t), i \notin DOMAIN s
      PROVE  i - Len(s) \in DOMAIN t /\ (s \o t)[i] = t[i - Len(s)]
  <2>1. i - Len(s) \in DOMAIN t /\ Len(s) + (i - Len(s)) = i
    BY <1>3, <1>5
  <2> QED
    BY <1>4, <2>1
<1> SUFFICES ASSUME NEW i \in DOMAIN (s \o t), NEW j \in DOMAIN (s \o t), (s \o t)[i][f] = (s \o t)[j][f]
             PROVE  i = j
  BY DEF Apart
<1>6. CASE i \in DOMAIN s /\ j \in DOMAIN s
  BY <1>4, <1>6 DEF Apart
<1>7. CASE i \notin DOMAIN s /\ j \notin DOMAIN s
  <2>1. i - Len(s) = j - Len(s)
    BY <1>5, <1>7 DEF Apart
  <2> QED
    BY <1>3, <2>1
<1>8. CASE i \in DOMAIN s /\ j \notin DOMAIN s
  BY <1>4, <1>5, <1>8 DEF Elements
<1>9. CASE i \notin DOMAIN s /\ j \in DOMAIN s
  BY <1>4, <1>5, <1>9 DEF Elements
<1> QED
  BY <1>6, <1>7, <1>8, <1>9

\* Parts with different keys make a part with both.
LEMMA JoinParts ==
    ASSUME NEW s, NEW t, NEW f, NEW K, NEW L, Part(s, f, K), Part(t, f, L), K \cap L = {}
    PROVE  Part(s \o t, f, K \cup L) /\ Elements(s \o t) = Elements(s) \cup Elements(t)
<1>1. IsList(s) /\ IsList(t)
  BY DEF Part
<1>2. IsList(s \o t) /\ Elements(s \o t) = Elements(s) \cup Elements(t)
  BY <1>1, ConcatElements
<1>3. \A x \in Elements(s), y \in Elements(t) : x[f] # y[f]
  BY DEF Part
<1>4. Apart(s \o t, f)
  BY <1>1, <1>3, ConcatApart DEF Part
<1>5. \A x \in Elements(s \o t) : x[f] \in K \cup L
  BY <1>2 DEF Part
<1> QED
  BY <1>2, <1>4, <1>5 DEF Part

\* An entry, or two with different values, or none, are a part.
LEMMA SmallParts ==
    ASSUME NEW x, NEW y, NEW f
    PROVE  /\ Part(<<>>, f, {x[f]}) /\ Part(<<x>>, f, {x[f]})
           /\ x[f] # y[f] => Part(<<x, y>>, f, {x[f], y[f]})
<1>1. Apart(<<>>, f) /\ Apart(<<x>>, f)
  BY DEF Apart
<1>2. x[f] # y[f] => Apart(<<x, y>>, f)
  <2> SUFFICES ASSUME x[f] # y[f] PROVE Apart(<<x, y>>, f)
    OBVIOUS
  <2>1. PICK p : p = <<x, y>>
    OBVIOUS
  <2>2. DOMAIN p = {1, 2} /\ p[1] = x /\ p[2] = y
    BY <2>1
  <2>3. Apart(p, f)
    BY <2>2 DEF Apart
  <2> QED
    BY <2>1, <2>3
<1> QED
  BY <1>1, <1>2, ShortLists DEF Part

\* The parts of a list without a value twice have none either.
LEMMA ApartParts ==
    ASSUME NEW s, NEW t, IsList(s), IsList(t), NEW f, Apart(s \o t, f)
    PROVE  Apart(s, f) /\ Apart(t, f)
<1>1. PICK S : S = Elements(s) \cup Elements(t)
  OBVIOUS
<1>2. s \in Seq(S) /\ t \in Seq(S)
  BY <1>1 DEF IsList, Elements
<1>3. /\ DOMAIN (s \o t) = 1..(Len(s) + Len(t)) /\ DOMAIN s = 1..Len(s) /\ DOMAIN t = 1..Len(t)
      /\ Len(s) \in Nat /\ Len(t) \in Nat
  BY <1>2
<1>4. /\ \A i \in DOMAIN s : (s \o t)[i] = s[i]
      /\ \A i \in DOMAIN t : (s \o t)[Len(s) + i] = t[i]
  BY <1>2
<1>5. ASSUME NEW i \in DOMAIN s, NEW j \in DOMAIN s, s[i][f] = s[j][f] PROVE i = j
  <2>1. i \in DOMAIN (s \o t) /\ j \in DOMAIN (s \o t)
    BY <1>3
  <2> QED
    BY <1>4, <1>5, <2>1 DEF Apart
<1>6. ASSUME NEW i \in DOMAIN t, NEW j \in DOMAIN t, t[i][f] = t[j][f] PROVE i = j
  <2>1. Len(s) + i \in DOMAIN (s \o t) /\ Len(s) + j \in DOMAIN (s \o t)
    BY <1>3
  <2>2. Len(s) + i = Len(s) + j
    BY <1>4, <1>6, <2>1 DEF Apart
  <2> QED
    BY <1>3, <2>2
<1> QED
  BY <1>5, <1>6 DEF Apart

\* The references of a spec make one volume and one mount each.
LEMMA SecretParts ==
    ASSUME NEW spec, HubField("provisioning", spec.provisioning),
           NEW vols, vols = [i \in DOMAIN SecretRefs(spec) |-> SecretVolume(SecretRefs(spec)[i])],
           NEW mounts, mounts = [i \in DOMAIN SecretRefs(spec) |-> SecretMount(SecretRefs(spec)[i])]
    PROVE  /\ IsList(vols) /\ IsList(mounts)
           /\ Apart(vols, "name") <=> RefsApart(spec)
           /\ RefsApart(spec) => Apart(mounts, "path")
           /\ \A v \in Elements(vols) : v.name[1] = "provisioning-"
           /\ \A m \in Elements(mounts) :
                 /\ \E x : m.path = <<"etc", "perses", "provisioning", "secrets", x>>
                 /\ \E v \in Elements(vols) : v.name = m.name
<1>1. PICK refs : refs = SecretRefs(spec)
  OBVIOUS
<1>2. IsList(refs)
  BY <1>1, ShortLists DEF HubField, SchemaField, Optional, SecretRefs, When
<1>3. Len(refs) \in Nat /\ DOMAIN refs = 1..Len(refs)
  BY <1>2 DEF IsList
<1>4. vols = [i \in 1..Len(refs) |-> SecretVolume(refs[i])]
      /\ mounts = [i \in 1..Len(refs) |-> SecretMount(refs[i])]
  BY <1>1, <1>3
<1>5. vols \in Seq({SecretVolume(refs[i]) : i \in 1..Len(refs)})
      /\ mounts \in Seq({SecretMount(refs[i]) : i \in 1..Len(refs)})
  BY <1>3, <1>4
<1>6. IsList(vols) /\ IsList(mounts)
  BY <1>5, SeqIsList
<1>7. \A i \in 1..Len(refs) :
        /\ vols[i].name = GetSecretVolumeName(refs[i])
        /\ mounts[i].name = GetSecretVolumeName(refs[i])
        /\ mounts[i].path = <<"etc", "perses", "provisioning", "secrets", FlatName[refs[i]]>>
  BY <1>4 DEF SecretVolume, SecretMount
<1>8. RefsApart(spec) <=>
        \A i, j \in 1..Len(refs) : GetSecretVolumeName(refs[i]) = GetSecretVolumeName(refs[j]) => i = j
  BY <1>1, <1>3 DEF RefsApart
<1>9. DOMAIN vols = 1..Len(refs) /\ DOMAIN mounts = 1..Len(refs)
  BY <1>4
<1>10. Apart(vols, "name") <=> RefsApart(spec)
  BY <1>7, <1>8, <1>9 DEF Apart
<1>11. RefsApart(spec) => Apart(mounts, "path")
  <2> SUFFICES ASSUME RefsApart(spec), NEW i \in 1..Len(refs), NEW j \in 1..Len(refs), mounts[i].path = mounts[j].path
               PROVE  i = j
    BY <1>9 DEF Apart
  <2>1. FlatName[refs[i]] = FlatName[refs[j]]
    <3>1. PICK x, y : x = FlatName[refs[i]] /\ y = FlatName[refs[j]]
      OBVIOUS
    <3>2. /\ mounts[i].path = <<"etc", "perses", "provisioning", "secrets", x>>
          /\ mounts[j].path = <<"etc", "perses", "provisioning", "secrets", y>>
      BY <1>7, <3>1
    <3>3. x = y
      BY <3>2
    <3> QED
      BY <3>1, <3>3
  <2>2. GetSecretVolumeName(refs[i]) = GetSecretVolumeName(refs[j])
    BY <2>1 DEF GetSecretVolumeName
  <2> QED
    BY <1>8, <2>2
<1>12. \A v \in Elements(vols) : v.name[1] = "provisioning-"
  BY <1>7, <1>9 DEF Elements, GetSecretVolumeName
<1>13. ASSUME NEW m \in Elements(mounts)
       PROVE  /\ \E x : m.path = <<"etc", "perses", "provisioning", "secrets", x>>
              /\ \E v \in Elements(vols) : v.name = m.name
  BY <1>7, <1>9 DEF Elements
<1> QED
  BY <1>6, <1>10, <1>11, <1>12, <1>13

\* A path is under the tree its first three components name.
LEMMA UnderTree ==
    ASSUME NEW d, NEW x
    PROVE  /\ Under(<<"etc", "perses", d>>, <<"etc", "perses", d>>)
           /\ Under(<<"etc", "perses", d, "secrets", x>>, <<"etc", "perses", d>>)
<1>1. PICK S, tree : S = {"etc", "perses", d} /\ tree = <<"etc", "perses", d>>
  OBVIOUS
<1>2. tree \in Seq(S) /\ Len(tree) = 3 /\ tree[1] = "etc" /\ tree[2] = "perses" /\ tree[3] = d
  BY <1>1
<1>3. ASSUME NEW p, p[1] = "etc", p[2] = "perses", p[3] = d, Len(p) >= 3
      PROVE  Under(p, tree)
  <2>1. PICK q : q = SubSeq(p, 1, 3)
    OBVIOUS
  <2>2. \A i \in 1..3 : p[i] \in S /\ tree[i] = p[i]
    BY <1>1, <1>2, <1>3
  <2>3. q \in Seq(S) /\ Len(q) = 3 /\ \A i \in 1..3 : q[i] = p[i]
    BY <2>1, <2>2, SubSeqProperties
  <2>4. q = tree
    BY <1>2, <2>2, <2>3, SeqEqual
  <2> QED
    BY <1>2, <1>3, <2>1, <2>4 DEF Under
<1>4. PICK p : p = <<"etc", "perses", d, "secrets", x>>
  OBVIOUS
<1>5. p[1] = "etc" /\ p[2] = "perses" /\ p[3] = d /\ Len(p) >= 3
  BY <1>4
<1>6. Under(tree, tree)
  BY <1>2, <1>3
<1>7. Under(p, tree)
  BY <1>3, <1>5
<1> QED
  BY <1>1, <1>4, <1>6, <1>7

\* What a user may mount is not where the operator mounts something.
LEMMA UserPaths ==
    ASSUME NEW spec, SpecVolumeMountsValid(spec), NEW m \in Elements(spec.volumeMounts)
    PROVE  /\ m.path \notin {<<"etc", "perses", "config">>, <<"etc", "perses", "plugins">>,
                             <<"perses">>, <<"ca">>, <<"tls">>}
           /\ \A x : m.path # <<"etc", "perses", "provisioning", "secrets", x>>
<1>1. m.path \notin {<<"perses">>, <<"ca">>, <<"tls">>}
  BY DEF SpecVolumeMountsValid, ReservedPaths
<1>2. ASSUME NEW d \in {"config", "plugins", "provisioning"} PROVE ~ Under(m.path, <<"etc", "perses", d>>)
  BY DEF SpecVolumeMountsValid, ReservedTrees
<1>3. ASSUME NEW d PROVE Under(<<"etc", "perses", d>>, <<"etc", "perses", d>>)
  BY UnderTree
<1>4. ASSUME NEW x
      PROVE  Under(<<"etc", "perses", "provisioning", "secrets", x>>, <<"etc", "perses", "provisioning">>)
  BY UnderTree
<1>5. m.path # <<"etc", "perses", "config">> /\ m.path # <<"etc", "perses", "plugins">>
  BY <1>2, <1>3
<1>6. ASSUME NEW x PROVE m.path # <<"etc", "perses", "provisioning", "secrets", x>>
  BY <1>2, <1>4
<1> QED
  BY <1>1, <1>5, <1>6

\* The parts of a pod that are the operator's own: one volume or none.
OwnVolumes(spec) ==
    << Volume("config", <<"configmap", "config">>), Volume("plugins", <<"emptyDir", "">>) >>
    \o When(spec.config.file,
            << Volume("storage", IF UsesEmptyDir(spec) THEN <<"emptyDir", "">> ELSE <<"claim", "">>) >>)
    \o When(isTLSEnabled(spec) /\ spec.tls[1].caCert # Nil,
            << createCertVolume("ca", spec.tls[1].caCert[1]) >>)
    \o When(isTLSEnabled(spec) /\ spec.tls[1].userCert # Nil,
            << createCertVolume("tls", spec.tls[1].userCert[1]) >>)
OwnMounts(spec) ==
    << Mount("config", <<"etc", "perses", "config">>), Mount("plugins", <<"etc", "perses", "plugins">>) >>
    \o When(spec.config.file, << Mount("storage", <<"perses">>) >>)
    \o When(isTLSEnabled(spec) /\ spec.tls[1].caCert # Nil, << Mount("ca", <<"ca">>) >>)
    \o When(isTLSEnabled(spec) /\ spec.tls[1].userCert # Nil, << Mount("tls", <<"tls">>) >>)

\* The same for four parts.
Disjoint(K, L) == K \cap L = {}
LEMMA JoinFour ==
    ASSUME NEW f, NEW p1, NEW p2, NEW p3, NEW p4, NEW K1, NEW K2, NEW K3, NEW K4,
           Part(p1, f, K1), Part(p2, f, K2), Part(p3, f, K3), Part(p4, f, K4),
           Disjoint(K1, K2), Disjoint(K1 \cup K2, K3), Disjoint(K1 \cup K2 \cup K3, K4)
    PROVE  /\ Part(p1 \o p2 \o p3 \o p4, f, K1 \cup K2 \cup K3 \cup K4)
           /\ Elements(p1 \o p2 \o p3 \o p4)
                 = Elements(p1) \cup Elements(p2) \cup Elements(p3) \cup Elements(p4)
<1>1. PICK q2, q3, L2, L3 : /\ q2 = p1 \o p2 /\ q3 = q2 \o p3
                            /\ L2 = K1 \cup K2 /\ L3 = L2 \cup K3
  OBVIOUS
<1>2. K1 \cap K2 = {} /\ L2 \cap K3 = {} /\ L3 \cap K4 = {}
  BY <1>1 DEF Disjoint
<1>3. Part(q2, f, L2) /\ Elements(q2) = Elements(p1) \cup Elements(p2)
  BY <1>1, <1>2, JoinParts
<1>4. Part(q3, f, L3) /\ Elements(q3) = Elements(q2) \cup Elements(p3)
  BY <1>1, <1>2, <1>3, JoinParts
<1>5. Part(q3 \o p4, f, L3 \cup K4) /\ Elements(q3 \o p4) = Elements(q3) \cup Elements(p4)
  BY <1>2, <1>4, JoinParts
<1>6. q3 \o p4 = p1 \o p2 \o p3 \o p4 /\ L3 \cup K4 = K1 \cup K2 \cup K3 \cup K4
  BY <1>1
<1>7. Elements(q3 \o p4) = Elements(p1) \cup Elements(p2) \cup Elements(p3) \cup Elements(p4)
  BY <1>3, <1>4, <1>5
<1> QED
  BY <1>5, <1>6, <1>7

\* A volume of the operator is named by its second component.
LEMMA PlainNames == \A a, b : <<"", a>> = <<"", b>> => a = b
  BY SMTT(30)

\* The operator's own volumes: the reserved names, each at most once.
LEMMA OwnVolumesPart ==
    ASSUME NEW spec
    PROVE  /\ Part(OwnVolumes(spec), "name", ReservedVolumes)
           /\ \E v \in Elements(OwnVolumes(spec)) : v.name = <<"", "config">>
           /\ \E v \in Elements(OwnVolumes(spec)) : v.name = <<"", "plugins">>
           /\ spec.config.file => \E v \in Elements(OwnVolumes(spec)) : v.name = <<"", "storage">>
           /\ isTLSEnabled(spec) /\ spec.tls[1].caCert # Nil =>
                 \E v \in Elements(OwnVolumes(spec)) : v.name = <<"", "ca">>
           /\ isTLSEnabled(spec) /\ spec.tls[1].userCert # Nil =>
                 createCertVolume("tls", spec.tls[1].userCert[1]) \in Elements(OwnVolumes(spec))
<1>1. PICK v, w, x, y, z :
        /\ v = Volume("config", <<"configmap", "config">>)
        /\ w = Volume("plugins", <<"emptyDir", "">>)
        /\ x = Volume("storage", IF UsesEmptyDir(spec) THEN <<"emptyDir", "">> ELSE <<"claim", "">>)
        /\ y = createCertVolume("ca", spec.tls[1].caCert[1])
        /\ z = createCertVolume("tls", spec.tls[1].userCert[1])
  OBVIOUS
<1>2. PICK p2, p3, p4 :
        /\ p2 = When(spec.config.file, <<x>>)
        /\ p3 = When(isTLSEnabled(spec) /\ spec.tls[1].caCert # Nil, <<y>>)
        /\ p4 = When(isTLSEnabled(spec) /\ spec.tls[1].userCert # Nil, <<z>>)
  OBVIOUS
<1>3. /\ v.name = <<"", "config">> /\ w.name = <<"", "plugins">> /\ x.name = <<"", "storage">>
      /\ y.name = <<"", "ca">> /\ z.name = <<"", "tls">>
  BY <1>1 DEF Volume, createCertVolume
<1>4. PICK own : own = OwnVolumes(spec)
  BY Zenon
<1>5. own = <<v, w>> \o p2 \o p3 \o p4
  BY <1>1, <1>2, <1>4, Zenon DEF OwnVolumes
<1>6. /\ p2 = <<>> \/ p2 = <<x>>
      /\ p3 = <<>> \/ p3 = <<y>>
      /\ p4 = <<>> \/ p4 = <<z>>
      /\ spec.config.file => p2 = <<x>>
      /\ isTLSEnabled(spec) /\ spec.tls[1].caCert # Nil => p3 = <<y>>
      /\ isTLSEnabled(spec) /\ spec.tls[1].userCert # Nil => p4 = <<z>>
  BY <1>2 DEF When
<1>7. PICK K1, K2, K3, K4 : /\ K1 = {v.name, w.name} /\ K2 = {x.name} /\ K3 = {y.name}
                            /\ K4 = {z.name}
  OBVIOUS
<1>8. PICK f, p1 : f = "name" /\ p1 = <<v, w>>
  OBVIOUS
<1>9. /\ v[f] # w[f] /\ x[f] # v[f] /\ x[f] # w[f] /\ y[f] # v[f] /\ y[f] # w[f] /\ y[f] # x[f]
      /\ z[f] # v[f] /\ z[f] # w[f] /\ z[f] # x[f] /\ z[f] # y[f]
  <2>1. /\ v.name # w.name /\ x.name # v.name /\ x.name # w.name
        /\ y.name # v.name /\ y.name # w.name /\ y.name # x.name
    BY <1>3, PlainNames
  <2>2. z.name # v.name /\ z.name # w.name /\ z.name # x.name /\ z.name # y.name
    BY <1>3, PlainNames
  <2> QED
    BY <1>8, <2>1, <2>2
<1>10. /\ Part(p1, f, K1) /\ Part(p2, f, K2) /\ Part(p3, f, K3) /\ Part(p4, f, K4)
       /\ Elements(p1) = {v, w}
  <2>1. K1 = {v[f], w[f]} /\ K2 = {x[f]} /\ K3 = {y[f]} /\ K4 = {z[f]}
    BY <1>7, <1>8
  <2>2. Part(p1, f, K1)
    BY <1>8, <1>9, <2>1, SmallParts
  <2>3. Part(p2, f, K2)
    BY <1>6, <2>1, SmallParts
  <2>4. Part(p3, f, K3)
    BY <1>6, <2>1, SmallParts
  <2>5. Part(p4, f, K4)
    BY <1>6, <2>1, SmallParts
  <2>6. Elements(p1) = {v, w}
    BY <1>8, ShortLists
  <2> QED
    BY <2>2, <2>3, <2>4, <2>5, <2>6
<1>11. /\ Part(own, f, K1 \cup K2 \cup K3 \cup K4)
       /\ Elements(own) = {v, w} \cup Elements(p2) \cup Elements(p3) \cup Elements(p4)
  <2>1. Disjoint(K1, K2) /\ Disjoint(K1 \cup K2, K3) /\ Disjoint(K1 \cup K2 \cup K3, K4)
    BY <1>7, <1>8, <1>9 DEF Disjoint
  <2>2. Part(p1, f, K1) /\ Part(p2, f, K2) /\ Part(p3, f, K3) /\ Part(p4, f, K4)
    BY <1>10
  <2>3. /\ Part(p1 \o p2 \o p3 \o p4, f, K1 \cup K2 \cup K3 \cup K4)
        /\ Elements(p1 \o p2 \o p3 \o p4)
              = Elements(p1) \cup Elements(p2) \cup Elements(p3) \cup Elements(p4)
    BY <2>1, <2>2, JoinFour
  <2> QED
    BY <1>5, <1>8, <1>10, <2>3
<1>12. Part(own, "name", ReservedVolumes)
  <2>1. K1 \cup K2 \cup K3 \cup K4 \subseteq ReservedVolumes
    BY <1>3, <1>7 DEF ReservedVolumes
  <2> QED
    BY <1>8, <1>11, <2>1 DEF Part
<1>13. /\ spec.config.file => x \in Elements(own)
       /\ isTLSEnabled(spec) /\ spec.tls[1].caCert # Nil => y \in Elements(own)
       /\ isTLSEnabled(spec) /\ spec.tls[1].userCert # Nil => z \in Elements(own)
       /\ v \in Elements(own) /\ w \in Elements(own)
  BY <1>6, <1>11, ShortLists
<1> QED
  BY <1>1, <1>3, <1>4, <1>12, <1>13

\* The paths of the operator's own mounts.
OwnPaths ==
    {<<"etc", "perses", "config">>, <<"etc", "perses", "plugins">>, <<"perses">>, <<"ca">>, <<"tls">>}

\* They are told apart by their lengths and components.
LEMMA PathsApart ==
    /\ <<"etc", "perses", "config">> # <<"etc", "perses", "plugins">>
    /\ \A a, b, c, d : <<a>> # <<b, c, d>>
    /\ \A a, b : <<a>> = <<b>> => a = b
  OBVIOUS

\* The operator's own mounts: its own paths, each at most once, each of a volume of its own.
LEMMA OwnMountsPart ==
    ASSUME NEW spec
    PROVE  /\ Part(OwnMounts(spec), "path", OwnPaths)
           /\ \A m \in Elements(OwnMounts(spec)) : \E v \in Elements(OwnVolumes(spec)) : v.name = m.name
           /\ isTLSEnabled(spec) /\ spec.tls[1].userCert # Nil =>
                 Mount("tls", <<"tls">>) \in Elements(OwnMounts(spec))
<1>1. PICK v, w, x, y, z :
        /\ v = Mount("config", <<"etc", "perses", "config">>)
        /\ w = Mount("plugins", <<"etc", "perses", "plugins">>)
        /\ x = Mount("storage", <<"perses">>)
        /\ y = Mount("ca", <<"ca">>)
        /\ z = Mount("tls", <<"tls">>)
  OBVIOUS
<1>2. PICK p2, p3, p4 :
        /\ p2 = When(spec.config.file, <<x>>)
        /\ p3 = When(isTLSEnabled(spec) /\ spec.tls[1].caCert # Nil, <<y>>)
        /\ p4 = When(isTLSEnabled(spec) /\ spec.tls[1].userCert # Nil, <<z>>)
  OBVIOUS
<1>3. /\ v.path = <<"etc", "perses", "config">> /\ w.path = <<"etc", "perses", "plugins">>
      /\ x.path = <<"perses">> /\ y.path = <<"ca">> /\ z.path = <<"tls">>
      /\ v.name = <<"", "config">> /\ w.name = <<"", "plugins">> /\ x.name = <<"", "storage">>
      /\ y.name = <<"", "ca">> /\ z.name = <<"", "tls">>
  BY <1>1 DEF Mount
<1>4. PICK own : own = OwnMounts(spec)
  OBVIOUS
<1>5. own = <<v, w>> \o p2 \o p3 \o p4
  BY <1>1, <1>2, <1>4 DEF OwnMounts
<1>6. /\ p2 = <<>> \/ (p2 = <<x>> /\ spec.config.file)
      /\ p3 = <<>> \/ (p3 = <<y>> /\ isTLSEnabled(spec) /\ spec.tls[1].caCert # Nil)
      /\ p4 = <<>> \/ (p4 = <<z>> /\ isTLSEnabled(spec) /\ spec.tls[1].userCert # Nil)
      /\ isTLSEnabled(spec) /\ spec.tls[1].userCert # Nil => p4 = <<z>>
  BY <1>2 DEF When
<1>7. PICK K1, K2, K3, K4 : /\ K1 = {v.path, w.path} /\ K2 = {x.path} /\ K3 = {y.path}
                            /\ K4 = {z.path}
  OBVIOUS
<1>8. PICK f, p1 : f = "path" /\ p1 = <<v, w>>
  OBVIOUS
<1>9. /\ v[f] # w[f] /\ x[f] # v[f] /\ x[f] # w[f] /\ y[f] # v[f] /\ y[f] # w[f] /\ y[f] # x[f]
      /\ z[f] # v[f] /\ z[f] # w[f] /\ z[f] # x[f] /\ z[f] # y[f]
  <2>1. /\ v.path # w.path /\ x.path # v.path /\ x.path # w.path
        /\ y.path # v.path /\ y.path # w.path /\ y.path # x.path
    BY <1>3, PathsApart
  <2>2. z.path # v.path /\ z.path # w.path /\ z.path # x.path /\ z.path # y.path
    BY <1>3, PathsApart
  <2> QED
    BY <1>8, <2>1, <2>2
<1>10. /\ Part(p1, f, K1) /\ Part(p2, f, K2) /\ Part(p3, f, K3) /\ Part(p4, f, K4)
       /\ Elements(p1) = {v, w}
  <2>1. K1 = {v[f], w[f]} /\ K2 = {x[f]} /\ K3 = {y[f]} /\ K4 = {z[f]}
    BY <1>7, <1>8
  <2>2. Part(p1, f, K1)
    BY <1>8, <1>9, <2>1, SmallParts
  <2>3. Part(p2, f, K2)
    BY <1>6, <2>1, SmallParts
  <2>4. Part(p3, f, K3)
    BY <1>6, <2>1, SmallParts
  <2>5. Part(p4, f, K4)
    BY <1>6, <2>1, SmallParts
  <2>6. Elements(p1) = {v, w}
    BY <1>8, ShortLists
  <2> QED
    BY <2>2, <2>3, <2>4, <2>5, <2>6
<1>11. /\ Part(own, f, K1 \cup K2 \cup K3 \cup K4)
       /\ Elements(own) = {v, w} \cup Elements(p2) \cup Elements(p3) \cup Elements(p4)
  <2>1. Disjoint(K1, K2) /\ Disjoint(K1 \cup K2, K3) /\ Disjoint(K1 \cup K2 \cup K3, K4)
    BY <1>7, <1>8, <1>9 DEF Disjoint
  <2>2. Part(p1, f, K1) /\ Part(p2, f, K2) /\ Part(p3, f, K3) /\ Part(p4, f, K4)
    BY <1>10
  <2>3. /\ Part(p1 \o p2 \o p3 \o p4, f, K1 \cup K2 \cup K3 \cup K4)
        /\ Elements(p1 \o p2 \o p3 \o p4)
              = Elements(p1) \cup Elements(p2) \cup Elements(p3) \cup Elements(p4)
    BY <2>1, <2>2, JoinFour
  <2> QED
    BY <1>5, <1>8, <1>10, <2>3
<1>12. Part(own, "path", OwnPaths)
  <2>1. K1 \cup K2 \cup K3 \cup K4 \subseteq OwnPaths
    BY <1>3, <1>7 DEF OwnPaths
  <2> QED
    BY <1>8, <1>11, <2>1 DEF Part
<1>13. Elements(<<>>) = {} /\ Elements(<<x>>) = {x} /\ Elements(<<y>>) = {y} /\ Elements(<<z>>) = {z}
  BY ShortLists
<1>14. ASSUME NEW m \in Elements(own)
       PROVE  \E u \in Elements(OwnVolumes(spec)) : u.name = m.name
  <2>1. CASE m = v \/ m = w
    BY <1>3, <2>1, OwnVolumesPart
  <2>2. CASE m = x /\ p2 = <<x>> /\ spec.config.file
    BY <1>3, <2>2, OwnVolumesPart
  <2>3. CASE m = y /\ isTLSEnabled(spec) /\ spec.tls[1].caCert # Nil
    BY <1>3, <2>3, OwnVolumesPart
  <2>4. CASE m = z /\ isTLSEnabled(spec) /\ spec.tls[1].userCert # Nil
    <3>1. createCertVolume("tls", spec.tls[1].userCert[1]).name = <<"", "tls">>
      BY DEF createCertVolume, Volume
    <3> QED
      BY <1>3, <2>4, <3>1, OwnVolumesPart
  <2>5. m \in {v, w} \cup Elements(p2) \cup Elements(p3) \cup Elements(p4)
    BY <1>11
  <2> QED
    BY <1>6, <1>13, <2>1, <2>2, <2>3, <2>4, <2>5
<1>15. isTLSEnabled(spec) /\ spec.tls[1].userCert # Nil => z \in Elements(own)
  BY <1>6, <1>11, <1>13
<1> QED
  BY <1>1, <1>4, <1>12, <1>14, <1>15

\* The names of the volumes are different when those of the references are: the
\* operator's own are reserved, those of the references have a prefix of their own, and
\* the user's are neither.
LEMMA VolumesApart ==
    ASSUME NEW spec, HubField("provisioning", spec.provisioning), HubField("volumes", spec.volumes),
           SpecVolumesValid(spec),
           NEW refs, refs = [i \in DOMAIN SecretRefs(spec) |-> SecretVolume(SecretRefs(spec)[i])]
    PROVE  /\ Apart(GetVolumes(spec), "name") <=> RefsApart(spec)
           /\ Elements(GetVolumes(spec))
                 = Elements(OwnVolumes(spec)) \cup Elements(refs) \cup Elements(spec.volumes)
<1>1. PICK own, user, both, f : /\ own = OwnVolumes(spec) /\ user = spec.volumes
                                /\ both = own \o refs /\ f = "name"
  BY Zenon
<1>2. GetVolumes(spec) = both \o user
  BY <1>1, Zenon DEF GetVolumes, OwnVolumes
<1>3. IsList(own) /\ Apart(own, f) /\ \A v \in Elements(own) : v[f] \in ReservedVolumes
  <2>1. Part(own, "name", ReservedVolumes)
    BY <1>1, OwnVolumesPart
  <2> QED
    BY <1>1, <2>1 DEF Part
<1>4. /\ IsList(refs) /\ (Apart(refs, f) <=> RefsApart(spec))
      /\ \A v \in Elements(refs) : v[f][1] = "provisioning-"
  <2>1. PICK mounts : mounts = [i \in DOMAIN SecretRefs(spec) |-> SecretMount(SecretRefs(spec)[i])]
    OBVIOUS
  <2> QED
    BY <1>1, <2>1, SecretParts
<1>5. IsList(user) /\ Apart(user, f)
      /\ \A v \in Elements(user) : v[f] \notin ReservedVolumes /\ v[f][1] # "provisioning-"
  BY <1>1 DEF HubField, SchemaField, SpecVolumesValid, Apart
<1>6. \A n \in ReservedVolumes : n[1] = ""
  <2>1. \A x : <<"", x>>[1] = ""
    OBVIOUS
  <2> QED
    BY <2>1 DEF ReservedVolumes
<1>7. \A v \in Elements(own), u \in Elements(refs) : v[f] # u[f]
  BY <1>3, <1>4, <1>6
<1>8. IsList(both) /\ Elements(both) = Elements(own) \cup Elements(refs)
  BY <1>1, <1>3, <1>4, ConcatElements
<1>9. Apart(both, f) <=> RefsApart(spec)
  <2>1. ASSUME RefsApart(spec) PROVE Apart(both, f)
    BY <1>1, <1>3, <1>4, <1>7, <2>1, ConcatApart
  <2>2. ASSUME Apart(both, f) PROVE RefsApart(spec)
    BY <1>1, <1>3, <1>4, <2>2, ApartParts
  <2> QED
    BY <2>1, <2>2
<1>10. \A v \in Elements(both), u \in Elements(user) : v[f] # u[f]
  BY <1>3, <1>4, <1>5, <1>8
<1>11. Apart(both \o user, f) <=> RefsApart(spec)
  <2>1. ASSUME RefsApart(spec) PROVE Apart(both \o user, f)
    BY <1>5, <1>8, <1>9, <1>10, <2>1, ConcatApart
  <2>2. ASSUME Apart(both \o user, f) PROVE RefsApart(spec)
    BY <1>5, <1>8, <1>9, <2>2, ApartParts
  <2> QED
    BY <2>1, <2>2
<1>12. Elements(both \o user) = Elements(both) \cup Elements(user)
  BY <1>5, <1>8, ConcatElements
<1> QED
  BY <1>1, <1>2, <1>8, <1>11, <1>12

\* So are the paths of the mounts.
LEMMA MountsApart ==
    ASSUME NEW spec, HubField("provisioning", spec.provisioning),
           HubField("volumeMounts", spec.volumeMounts), SpecVolumeMountsValid(spec),
           NEW refs, refs = [i \in DOMAIN SecretRefs(spec) |-> SecretMount(SecretRefs(spec)[i])]
    PROVE  /\ RefsApart(spec) => Apart(GetVolumeMounts(spec), "path")
           /\ Elements(GetVolumeMounts(spec))
                 = Elements(OwnMounts(spec)) \cup Elements(refs) \cup Elements(spec.volumeMounts)
<1> DEFINE SecretPath(p) == \E x : p = <<"etc", "perses", "provisioning", "secrets", x>>
<1>1. PICK own, user, both, f : /\ own = OwnMounts(spec) /\ user = spec.volumeMounts
                                /\ both = own \o refs /\ f = "path"
  OBVIOUS
<1>2. GetVolumeMounts(spec) = both \o user
  BY <1>1 DEF GetVolumeMounts, OwnMounts
<1>3. IsList(own) /\ Apart(own, f) /\ \A m \in Elements(own) : m[f] \in OwnPaths
  <2>1. Part(own, "path", OwnPaths)
    BY <1>1, OwnMountsPart
  <2> QED
    BY <1>1, <2>1 DEF Part
<1>4. /\ IsList(refs) /\ (RefsApart(spec) => Apart(refs, f))
      /\ \A m \in Elements(refs) : SecretPath(m[f])
  <2>1. PICK vols : vols = [i \in DOMAIN SecretRefs(spec) |-> SecretVolume(SecretRefs(spec)[i])]
    OBVIOUS
  <2> QED
    BY <1>1, <2>1, SecretParts, SMTT(30)
<1>5. IsList(user) /\ Apart(user, f)
  BY <1>1 DEF HubField, SchemaField, SpecVolumeMountsValid, Apart
<1>6. \A m \in Elements(user) : m[f] \notin OwnPaths /\ ~ SecretPath(m[f])
  BY <1>1, UserPaths DEF OwnPaths
<1>7. \A p \in OwnPaths : ~ SecretPath(p)
  <2> SUFFICES ASSUME NEW p \in OwnPaths, NEW x,
                      p = <<"etc", "perses", "provisioning", "secrets", x>>
               PROVE  FALSE
    OBVIOUS
  <2>1. Len(p) = 5
    OBVIOUS
  <2>2. Len(p) = 3 \/ Len(p) = 1
    BY DEF OwnPaths
  <2> QED
    BY <2>1, <2>2
<1> HIDE DEF SecretPath
<1>8. \A m \in Elements(own), n \in Elements(refs) : m[f] # n[f]
  BY <1>3, <1>4, <1>7
<1>9. IsList(both) /\ Elements(both) = Elements(own) \cup Elements(refs)
  BY <1>1, <1>3, <1>4, ConcatElements
<1>10. RefsApart(spec) => Apart(both, f)
  BY <1>1, <1>3, <1>4, <1>8, ConcatApart
<1>11. \A m \in Elements(both), n \in Elements(user) : m[f] # n[f]
  BY <1>3, <1>4, <1>6, <1>9
<1>12. RefsApart(spec) => Apart(both \o user, f)
  BY <1>5, <1>9, <1>10, <1>11, ConcatApart
<1>13. Elements(both \o user) = Elements(both) \cup Elements(user)
  BY <1>5, <1>9, ConcatElements
<1> QED
  BY <1>1, <1>2, <1>9, <1>12, <1>13

\* What the API server asks of the pod of a spec it let in holds unless two references
\* name one volume or the user mounts what the pod does not have.
LEMMA PodIsAdmitted ==
    ASSUME NEW spec, V2SpecOK("Perses", spec), SpecVolumesValid(spec), SpecVolumeMountsValid(spec),
           NEW flags
    PROVE  /\ PodAdmitted(PodTemplateSpec(Name, spec, flags)) <=> RefsApart(spec) /\ MountsPresent(spec)
           /\ Elements(OwnVolumes(spec)) \subseteq Elements(GetVolumes(spec))
           /\ Elements(OwnMounts(spec)) \subseteq Elements(GetVolumeMounts(spec))
<1>1. PICK vrefs, mrefs :
        /\ vrefs = [i \in DOMAIN SecretRefs(spec) |-> SecretVolume(SecretRefs(spec)[i])]
        /\ mrefs = [i \in DOMAIN SecretRefs(spec) |-> SecretMount(SecretRefs(spec)[i])]
  OBVIOUS
<1>2. /\ HubField("provisioning", spec.provisioning) /\ HubField("volumes", spec.volumes)
      /\ HubField("volumeMounts", spec.volumeMounts)
  BY HubFields
<1>3. PICK vols, mounts : vols = GetVolumes(spec) /\ mounts = GetVolumeMounts(spec)
  OBVIOUS
<1>4. /\ Apart(vols, "name") <=> RefsApart(spec)
      /\ Elements(vols) = Elements(OwnVolumes(spec)) \cup Elements(vrefs) \cup Elements(spec.volumes)
  BY <1>1, <1>2, <1>3, VolumesApart
<1>5. /\ RefsApart(spec) => Apart(mounts, "path")
      /\ Elements(mounts)
            = Elements(OwnMounts(spec)) \cup Elements(mrefs) \cup Elements(spec.volumeMounts)
  BY <1>1, <1>2, <1>3, MountsApart
<1>secrets. \A m \in Elements(mrefs) : \E v \in Elements(vrefs) : v.name = m.name
  BY <1>1, <1>2, SecretParts, SMTT(30)
<1>6. ASSUME MountsPresent(spec), NEW m \in Elements(mounts)
      PROVE  \E v \in Elements(vols) : v.name = m.name
  <2>1. CASE m \in Elements(OwnMounts(spec))
    BY <1>4, <2>1, OwnMountsPart
  <2>2. CASE m \in Elements(mrefs)
    BY <1>4, <1>secrets, <2>2
  <2>3. CASE m \in Elements(spec.volumeMounts)
    BY <1>3, <1>6, <2>3 DEF MountsPresent
  <2> QED
    BY <1>5, <2>1, <2>2, <2>3
<1>7. MountsPresent(spec)
        <=> \A i \in DOMAIN mounts : \E j \in DOMAIN vols : vols[j].name = mounts[i].name
  <2>1. ASSUME MountsPresent(spec), NEW i \in DOMAIN mounts
        PROVE  \E j \in DOMAIN vols : vols[j].name = mounts[i].name
    BY <1>6, <2>1 DEF Elements
  <2>2. ASSUME \A i \in DOMAIN mounts : \E j \in DOMAIN vols : vols[j].name = mounts[i].name,
               NEW m \in Elements(spec.volumeMounts)
        PROVE  \E v \in Elements(vols) : v.name = m.name
    <3>1. PICK i \in DOMAIN mounts : m = mounts[i]
      BY <1>5 DEF Elements
    <3>2. PICK j \in DOMAIN vols : vols[j].name = m.name
      BY <2>2, <3>1
    <3> QED
      BY <3>2 DEF Elements
  <2> QED
    BY <1>3, <2>1, <2>2 DEF MountsPresent
<1>8. PICK template : template = PodTemplateSpec(Name, spec, flags)
  OBVIOUS
<1>9. template.volumes = vols /\ template.volumeMounts = mounts
  BY <1>3, <1>8 DEF PodTemplateSpec
<1>10. PodAdmitted(template) <=> RefsApart(spec) /\ MountsPresent(spec)
  BY <1>4, <1>5, <1>7, <1>9 DEF PodAdmitted, Apart
<1> QED
  BY <1>3, <1>4, <1>5, <1>8, <1>10

\* A file in a directory.
LEMMA PairPath == ASSUME NEW a, NEW b PROVE <<a>> \o <<b>> = <<a, b>>
<1>1. PICK S, s, t, u : S = {a, b} /\ s = <<a>> /\ t = <<b>> /\ u = <<a, b>>
  OBVIOUS
<1>2. /\ s \in Seq(S) /\ t \in Seq(S) /\ u \in Seq(S) /\ Len(s) = 1 /\ Len(t) = 1 /\ Len(u) = 2
      /\ s[1] = a /\ t[1] = b /\ u[1] = a /\ u[2] = b
  BY <1>1
<1>3. s \o t \in Seq(S) /\ Len(s \o t) = 2 /\ (s \o t)[1] = a /\ (s \o t)[2] = b
  <2>1. /\ s \o t \in Seq(S) /\ Len(s \o t) = Len(s) + Len(t)
        /\ \A i \in 1..(Len(s) + Len(t)) : (s \o t)[i] = IF i <= Len(s) THEN s[i] ELSE t[i - Len(s)]
    BY <1>2, ConcatProperties
  <2>2. Len(s) + Len(t) = 2 /\ 1 \in 1..2 /\ 2 \in 1..2 /\ 2 - Len(s) = 1
    BY <1>2
  <2>3. (s \o t)[1] = s[1] /\ (s \o t)[2] = t[1]
    BY <1>2, <2>1, <2>2
  <2> QED
    BY <1>2, <2>1, <2>2, <2>3
<1>4. s \o t = u
  BY <1>2, <1>3, SeqEqual, SMTT(30)
<1> QED
  BY <1>1, <1>4

\* The pod of a spec that was let in through either version is refused by the API server
\* only for one of two mistakes the schema lets through, references that name one volume
\* and a mount of a volume the pod does not have, and always for these, however many
\* references, volumes and mounts the user adds; its server finds the certificate its
\* arguments name (GetVolumes, GetVolumeMounts and GetPersesArgs agree).
THEOREM PodStarts == Spec => []PodCanStart
<1>1. ApiInv => PodCanStart
  <2> SUFFICES ASSUME ApiInv, kind = "Perses", stored # Nil
               PROVE  PodCanStart
    BY Zenon DEF PodCanStart
  <2>1. PICK spec, cert : spec = stored[1].spec /\ cert = spec.tls[1].userCert[1]
    OBVIOUS
  <2>2. V2SpecOK("Perses", spec) /\ SpecVolumesValid(spec) /\ SpecVolumeMountsValid(spec)
    BY <2>1 DEF ApiInv, HubObject
  <2>3. IsList(spec.args) /\ HubField("tls", spec.tls)
    BY <2>2, HubFields DEF HubField, SchemaField
  <2>4. PICK template : template = PodTemplateSpec(Name, spec, op)
    OBVIOUS
  <2>5. /\ PodAdmitted(template) <=> RefsApart(spec) /\ MountsPresent(spec)
        /\ Elements(OwnVolumes(spec)) \subseteq Elements(template.volumes)
        /\ Elements(OwnMounts(spec)) \subseteq Elements(template.volumeMounts)
    <3>1. /\ PodAdmitted(PodTemplateSpec(Name, spec, op)) <=> RefsApart(spec) /\ MountsPresent(spec)
          /\ Elements(OwnVolumes(spec)) \subseteq Elements(GetVolumes(spec))
          /\ Elements(OwnMounts(spec)) \subseteq Elements(GetVolumeMounts(spec))
      BY <2>1, <2>2, PodIsAdmitted
    <3>2. template.volumes = GetVolumes(spec) /\ template.volumeMounts = GetVolumeMounts(spec)
      BY <2>4 DEF PodTemplateSpec
    <3> QED
      BY <2>4, <3>1, <3>2
  <2>6. ASSUME hasTLSConfiguration(spec), cert.source.type # "file"
        PROVE  \E m \in Elements(template.volumeMounts), v \in Elements(template.volumes) :
                  /\ \E a \in Elements(template.args) :
                        a = <<"tls-cert-file", m.path \o <<cert.certPath>> >>
                  /\ v.name = m.name
                  /\ v.source = <<cert.source.type, Deref(cert.source.name, "")>>
    <3>1. isTLSEnabled(spec) /\ spec.tls[1].userCert # Nil
      BY <2>6 DEF hasTLSConfiguration
    <3>2. cert.source.type \in {"secret", "configmap"}
      <4>1. Optional(spec.tls[1].userCert, SourceTyped)
        BY <2>3, <3>1 DEF HubField, SchemaField, Optional, UserCertTyped, isTLSEnabled
      <4>2. cert.source.type \in SecretSourceTypes
        BY <2>1, <3>1, <4>1 DEF Optional, SourceTyped
      <4> QED
        BY <2>6, <4>2 DEF SecretSourceTypes
    <3>3. PICK m, v : m = Mount("tls", <<"tls">>) /\ v = createCertVolume("tls", cert)
      OBVIOUS
    <3>4. m \in Elements(template.volumeMounts) /\ v \in Elements(template.volumes)
      BY <2>1, <2>5, <3>1, <3>3, OwnMountsPart, OwnVolumesPart
    <3>5. m.path = <<"tls">> /\ m.name = <<"", "tls">>
      BY <3>3 DEF Mount
    <3>6. v.name = <<"", "tls">> /\ v.source = <<cert.source.type, Deref(cert.source.name, "")>>
      BY <3>2, <3>3 DEF createCertVolume, Volume
    <3>7. PICK path : path = cert.certPath
      OBVIOUS
    <3>8. <<"tls">> \o <<path>> = <<"tls", path>>
      BY PairPath, SMTT(30)
    <3>9. <<"tls-cert-file", <<"tls", path>> >> \in Elements(template.args)
      <4>1. template.args = GetPersesArgs(spec, op)
        BY <2>4 DEF PodTemplateSpec
      <4> QED
        BY <2>1, <2>3, <2>6, <3>7, <4>1, ListensOnPort
    <3> QED
      BY <3>4, <3>5, <3>6, <3>7, <3>8, <3>9
  <2> QED
    BY <2>1, <2>4, <2>5, <2>6, ZenonT(60) DEF PodCanStart
<1> QED
  BY <1>1, ApiInvariant, PTL

-----------------------------------------------------------------------------
(***************************************************************************)
(* A Perses read and sent back unchanged through v1alpha1.                 *)
(***************************************************************************)

\* Its spec is converted both ways.
LEMMA ResentSpec ==
    ASSUME kind \in Kinds
    PROVE  Resent.spec = SpecTo(kind, DefaultV1(SpecFrom(kind, stored[1].spec)))
<1>1. PICK obj : obj = ConvertFrom(stored[1])
  OBVIOUS
<1>2. PICK request : request = [obj EXCEPT !.spec = DefaultV1(obj.spec)]
  OBVIOUS
<1>3. HasFields(obj, {"meta", "spec", "status"}) /\ obj.spec = SpecFrom(kind, stored[1].spec)
  BY <1>1, ConvertParts
<1>4. request.spec = DefaultV1(obj.spec)
  BY <1>2, <1>3 DEF HasFields
<1>5. ConvertTo(request).spec = SpecTo(kind, request.spec)
  BY ConvertParts
<1>6. Resent = ConvertTo(request)
  BY <1>1, <1>2, Zenon DEF Resent
<1> QED
  BY <1>3, <1>4, <1>5, <1>6

\* What v1alpha1 clients do to a Perses or a dashboard comes to rest: one that sends back
\* what it read after a v1alpha1 write leaves the spec as it is, down to the pointers
\* (DefaultV1 and the conversions have nothing left to fill in), so it starts no pass of
\* the operator.
V1RewriteSettles ==
    written # Nil /\ kind # "PersesDatasource" => Resent.spec = stored[1].spec

\* The rewrites settle, whatever was written.
THEOREM RewriteSettles == Spec => []V1RewriteSettles
<1>1. ApiInv => V1RewriteSettles
  <2> SUFFICES ASSUME ApiInv, written # Nil, kind # "PersesDatasource"
               PROVE  Resent.spec = stored[1].spec
    BY DEF V1RewriteSettles
  <2>1. /\ kind \in Kinds /\ V1SpecOK(kind, written[1]) /\ DefaultV1(written[1]) = written[1]
        /\ stored[1].spec = SpecTo(kind, written[1])
    BY DEF ApiInv, TypeOK
  <2>2. SpecFrom(kind, SpecTo(kind, written[1])) = written[1]
    BY <2>1, SpecRoundTrip
  <2> QED
    BY <2>1, <2>2, ResentSpec
<1> QED
  BY <1>1, ApiInvariant, PTL

\* The spec that is stored for a Perses.
Rewritten(spec) == PersesSpec_To_v1alpha2(DefaultV1(PersesSpec_To_v1alpha1(spec)))

\* Its fields.
LEMMA RewrittenFields ==
    ASSUME kind = "Perses", NEW a, NEW b, b = Rewritten(a),
           NEW port, port = Convert_Pointer_To_int32(a.containerPort),
           NEW st, st = WhereSet(a.storage, StorageConfiguration_To_v1alpha1)
    PROVE  /\ b.config = a.config /\ b.args = a.args /\ b.replicas = a.replicas
           /\ b.scheduling = a.scheduling /\ b.probes = a.probes
           /\ b.image = Pointer(Convert_Pointer_To_string(a.image))
           /\ b.serviceAccountName = Pointer(Convert_Pointer_To_string(a.serviceAccountName))
           /\ b.metadata = WhereSet(WhereSet(a.metadata, Metadata_To_v1alpha1), Metadata_To_v1alpha2)
           /\ b.service = WhereSet(WhereSet(a.service, PersesService_To_v1alpha1), PersesService_To_v1alpha2)
           /\ b.tls = WhereSet(WhereSet(a.tls, TLS_To_v1alpha1), TLS_To_v1alpha2)
           /\ b.containerPort = Pointer(IF port = 0 THEN DefaultContainerPort ELSE port)
           /\ b.storage = WhereSet(IF st = Nil THEN Pointer([storageClass |-> Nil, size |-> 1]) ELSE st,
                                   StorageConfiguration_To_v1alpha2)
           /\ \A f \in DOMAIN HubOnly : b[f] = HubOnly[f]
<1>1. PICK r : r = PersesSpec_To_v1alpha1(a)
  OBVIOUS
<1>2. PICK d : d = DefaultV1(r)
  OBVIOUS
<1>3. d = [r EXCEPT !.containerPort = IF @ = 0 THEN DefaultContainerPort ELSE @,
                    !.storage = IF @ = Nil THEN Pointer([storageClass |-> Nil, size |-> 1]) ELSE @]
  BY <1>2 DEF DefaultV1
<1>4. /\ DOMAIN r = PersesSpecFields
      /\ r.config = a.config /\ r.args = a.args /\ r.replicas = a.replicas
      /\ r.scheduling = a.scheduling /\ r.probes = a.probes
      /\ r.image = Convert_Pointer_To_string(a.image)
      /\ r.serviceAccountName = Convert_Pointer_To_string(a.serviceAccountName)
      /\ r.metadata = WhereSet(a.metadata, Metadata_To_v1alpha1)
      /\ r.service = WhereSet(a.service, PersesService_To_v1alpha1)
      /\ r.tls = WhereSet(a.tls, TLS_To_v1alpha1)
      /\ r.containerPort = port /\ r.storage = st
  BY <1>1 DEF PersesSpec_To_v1alpha1, PersesSpecFields
<1>5. /\ \A f \in PersesSpecFields \ {"containerPort", "storage"} : d[f] = r[f]
      /\ d.containerPort = IF port = 0 THEN DefaultContainerPort ELSE port
      /\ d.storage = IF st = Nil THEN Pointer([storageClass |-> Nil, size |-> 1]) ELSE st
  BY <1>3, <1>4 DEF PersesSpecFields
<1>6. /\ d.config = r.config /\ d.args = r.args /\ d.replicas = r.replicas
      /\ d.scheduling = r.scheduling /\ d.probes = r.probes /\ d.image = r.image
      /\ d.serviceAccountName = r.serviceAccountName /\ d.metadata = r.metadata
      /\ d.service = r.service /\ d.tls = r.tls
  BY <1>5 DEF PersesSpecFields
<1>7. b = PersesSpec_To_v1alpha2(d)
  BY <1>1, <1>2 DEF Rewritten
<1>8. /\ b.config = d.config /\ b.args = d.args /\ b.replicas = d.replicas
      /\ b.scheduling = d.scheduling /\ b.probes = d.probes
      /\ b.image = Pointer(d.image) /\ b.serviceAccountName = Pointer(d.serviceAccountName)
      /\ b.metadata = WhereSet(d.metadata, Metadata_To_v1alpha2)
      /\ b.service = WhereSet(d.service, PersesService_To_v1alpha2)
      /\ b.tls = WhereSet(d.tls, TLS_To_v1alpha2)
      /\ b.containerPort = Pointer(d.containerPort)
      /\ b.storage = WhereSet(d.storage, StorageConfiguration_To_v1alpha2)
  BY <1>7 DEF PersesSpec_To_v1alpha2, Convert_To_Pointer
<1>9. \A f \in DOMAIN HubOnly : b[f] = HubOnly[f]
  BY <1>7 DEF PersesSpec_To_v1alpha2, HubOnly
<1> QED
  BY <1>4, <1>5, <1>6, <1>8, <1>9

\* A value that becomes a pointer to what it pointed at means what it did.
LEMMA DerefPointer ==
    ASSUME NEW p, NEW zero, NEW q, q = Pointer(Deref(p, zero))
    PROVE  q # Nil /\ q[1] = Deref(p, zero) /\ Deref(q, zero) = Deref(p, zero)
  BY DEF Deref, Pointer, Nil

\* The labels, the image, the name of the Service and the account are the same.
LEMMA NamesKept ==
    ASSUME kind = "Perses", NEW a, NEW b, b = Rewritten(a), NEW flags
    PROVE  /\ LabelsForPerses(Name, b) = LabelsForPerses(Name, a)
           /\ ImageForPerses(b, flags) = ImageForPerses(a, flags)
           /\ ServiceName(Name, b) = ServiceName(Name, a)
           /\ Deref(b.serviceAccountName, "") = Deref(a.serviceAccountName, "")
<1>1. PICK image, account, metadata, service :
        /\ image = a.image /\ account = a.serviceAccountName
        /\ metadata = a.metadata /\ service = a.service
  OBVIOUS
<1>2. /\ b.image = Pointer(Deref(image, ""))
      /\ b.serviceAccountName = Pointer(Deref(account, ""))
      /\ b.metadata = WhereSet(WhereSet(metadata, Metadata_To_v1alpha1), Metadata_To_v1alpha2)
      /\ b.service = WhereSet(WhereSet(service, PersesService_To_v1alpha1), PersesService_To_v1alpha2)
  <2>1. PICK port, st : /\ port = Convert_Pointer_To_int32(a.containerPort)
                        /\ st = WhereSet(a.storage, StorageConfiguration_To_v1alpha1)
    OBVIOUS
  <2> QED
    BY <1>1, <2>1, RewrittenFields DEF Convert_Pointer_To_string
<1>3. /\ b.metadata = Nil <=> metadata = Nil
      /\ metadata # Nil => b.metadata[1].labels = metadata[1].labels
  <2>1. PICK mid, out : mid = WhereSet(metadata, Metadata_To_v1alpha1) /\ out = b.metadata
    OBVIOUS
  <2>2. /\ mid = Nil <=> metadata = Nil
        /\ metadata # Nil => mid[1].labels = metadata[1].labels
    BY <2>1 DEF WhereSet, Metadata_To_v1alpha1, Pointer, Nil
  <2>3. out = WhereSet(mid, Metadata_To_v1alpha2)
    BY <1>2, <2>1
  <2>4. /\ out = Nil <=> mid = Nil
        /\ mid # Nil => out[1].labels = mid[1].labels
    BY <2>3 DEF WhereSet, Metadata_To_v1alpha2, Pointer, Nil
  <2> QED
    BY <2>1, <2>2, <2>4
<1>4. LabelsForPerses(Name, b) = LabelsForPerses(Name, a)
  BY <1>1, <1>3 DEF LabelsForPerses
<1>5. Deref(b.image, "") = Deref(image, "") /\ b.image[1] = Deref(image, "")
      /\ Deref(b.serviceAccountName, "") = Deref(account, "")
  <2>1. PICK i, n, zero : i = b.image /\ n = b.serviceAccountName /\ zero = ""
    OBVIOUS
  <2>2. i = Pointer(Deref(image, zero)) /\ n = Pointer(Deref(account, zero))
    BY <1>2, <2>1
  <2>3. Deref(i, zero) = Deref(image, zero) /\ i[1] = Deref(image, zero)
    BY <2>2, DerefPointer
  <2>4. Deref(n, zero) = Deref(account, zero)
    BY <2>2, DerefPointer
  <2> QED
    BY <2>1, <2>3, <2>4
<1>6. Deref(image, "") # "" => image[1] = Deref(image, "")
  BY DEF Deref
<1>7. ImageForPerses(b, flags) = ImageForPerses(a, flags)
  BY <1>1, <1>5, <1>6 DEF ImageForPerses
<1>8. /\ b.service = Nil <=> service = Nil
      /\ service # Nil => b.service[1].name = Pointer(Deref(service[1].name, ""))
  <2>1. PICK mid, out : mid = WhereSet(service, PersesService_To_v1alpha1) /\ out = b.service
    OBVIOUS
  <2>2. /\ mid = Nil <=> service = Nil
        /\ service # Nil => mid[1].name = Deref(service[1].name, "")
    BY <2>1 DEF WhereSet, PersesService_To_v1alpha1, Convert_Pointer_To_string, Pointer, Nil
  <2>3. out = WhereSet(mid, PersesService_To_v1alpha2)
    BY <1>2, <2>1
  <2>4. /\ out = Nil <=> mid = Nil
        /\ mid # Nil => out[1].name = Pointer(mid[1].name)
    BY <2>3 DEF WhereSet, PersesService_To_v1alpha2, Convert_To_Pointer, Pointer, Nil
  <2> QED
    BY <2>1, <2>2, <2>4
<1>9. ServiceName(Name, b) = ServiceName(Name, a)
  <2>1. PICK p, q, zero : p = service[1].name /\ q = b.service[1].name /\ zero = ""
    OBVIOUS
  <2>2. service # Nil => q[1] = Deref(p, "") /\ Deref(q, "") = Deref(p, "")
    BY <1>8, <2>1, DerefPointer
  <2>3. Deref(p, "") # "" => p[1] = Deref(p, "")
    BY DEF Deref
  <2> QED
    BY <1>1, <1>8, <2>1, <2>2, <2>3 DEF ServiceName
<1> QED
  BY <1>1, <1>4, <1>5, <1>7, <1>9

\* So is what is made of the TLS setting.
LEMMA TLSKept ==
    ASSUME kind = "Perses", NEW a, NEW b, b = Rewritten(a)
    PROVE  /\ isTLSEnabled(b) <=> isTLSEnabled(a)
           /\ hasTLSConfiguration(b) <=> hasTLSConfiguration(a)
           /\ isTLSEnabled(a) =>
                /\ b.tls[1].caCert = Nil <=> a.tls[1].caCert = Nil
                /\ b.tls[1].userCert = Nil <=> a.tls[1].userCert = Nil
                /\ a.tls[1].caCert # Nil =>
                      createCertVolume("ca", b.tls[1].caCert[1]) = createCertVolume("ca", a.tls[1].caCert[1])
                /\ a.tls[1].userCert # Nil =>
                      /\ createCertVolume("tls", b.tls[1].userCert[1])
                            = createCertVolume("tls", a.tls[1].userCert[1])
                      /\ b.tls[1].userCert[1].certPath = a.tls[1].userCert[1].certPath
                      /\ Deref(b.tls[1].userCert[1].privateKeyPath, "")
                            = Deref(a.tls[1].userCert[1].privateKeyPath, "")
<1>1. b.tls = WhereSet(WhereSet(a.tls, TLS_To_v1alpha1), TLS_To_v1alpha2)
  <2>1. PICK port, st : /\ port = Convert_Pointer_To_int32(a.containerPort)
                        /\ st = WhereSet(a.storage, StorageConfiguration_To_v1alpha1)
    OBVIOUS
  <2> QED
    BY <2>1, RewrittenFields
<1>2. b.tls = Nil <=> a.tls = Nil
  BY <1>1 DEF WhereSet, Pointer, Nil
<1>3. PICK t, u : t = a.tls[1] /\ u = b.tls[1]
  OBVIOUS
<1>4. a.tls # Nil =>
        /\ u.enable = Pointer(Deref(t.enable, FALSE))
        /\ u.caCert = WhereSet(WhereSet(t.caCert, Certificate_To_v1alpha1), Certificate_To_v1alpha2)
        /\ u.userCert = WhereSet(WhereSet(t.userCert, Certificate_To_v1alpha1), Certificate_To_v1alpha2)
  <2> SUFFICES ASSUME a.tls # Nil
               PROVE  u.enable = Pointer(Deref(t.enable, FALSE)) /\
                      u.caCert = WhereSet(WhereSet(t.caCert, Certificate_To_v1alpha1), Certificate_To_v1alpha2) /\
                      u.userCert = WhereSet(WhereSet(t.userCert, Certificate_To_v1alpha1), Certificate_To_v1alpha2)
    OBVIOUS
  <2>1. PICK s : s = TLS_To_v1alpha1(t)
    OBVIOUS
  <2>2. u = TLS_To_v1alpha2(s)
    BY <1>1, <1>3, <2>1 DEF WhereSet, Pointer, Nil
  <2>3. /\ s.enable = Deref(t.enable, FALSE) /\ s.caCert = WhereSet(t.caCert, Certificate_To_v1alpha1)
        /\ s.userCert = WhereSet(t.userCert, Certificate_To_v1alpha1)
    BY <2>1 DEF TLS_To_v1alpha1, Convert_Pointer_To_bool
  <2> QED
    BY <2>2, <2>3 DEF TLS_To_v1alpha2, Convert_To_Pointer
<1>5. a.tls # Nil => Deref(u.enable, FALSE) = Deref(t.enable, FALSE)
  <2>1. PICK p, q, zero : p = t.enable /\ q = u.enable /\ zero = FALSE
    OBVIOUS
  <2> QED
    BY <1>4, <2>1, DerefPointer
<1>6. isTLSEnabled(b) <=> isTLSEnabled(a)
  BY <1>2, <1>3, <1>5, Zenon DEF isTLSEnabled
<1>7. ASSUME NEW c, NEW d, d = WhereSet(WhereSet(c, Certificate_To_v1alpha1), Certificate_To_v1alpha2), NEW n
      PROVE  /\ d = Nil <=> c = Nil
             /\ c # Nil => /\ createCertVolume(n, d[1]) = createCertVolume(n, c[1])
                           /\ d[1].certPath = c[1].certPath
                           /\ Deref(d[1].privateKeyPath, "") = Deref(c[1].privateKeyPath, "")
  <2>1. d = Nil <=> c = Nil
    BY <1>7 DEF WhereSet, Pointer, Nil
  <2>2. ASSUME c # Nil
        PROVE  /\ createCertVolume(n, d[1]) = createCertVolume(n, c[1])
               /\ d[1].certPath = c[1].certPath
               /\ Deref(d[1].privateKeyPath, "") = Deref(c[1].privateKeyPath, "")
    <3>1. PICK x, y : x = c[1] /\ y = d[1]
      OBVIOUS
    <3>2. y = Certificate_To_v1alpha2(Certificate_To_v1alpha1(x))
      BY <1>7, <2>2, <3>1 DEF WhereSet, Pointer, Nil
    <3>3. /\ y.source.type = x.source.type /\ y.source.name = Pointer(Deref(x.source.name, ""))
          /\ y.certPath = x.certPath /\ y.privateKeyPath = Pointer(Deref(x.privateKeyPath, ""))
      BY <3>2 DEF Certificate_To_v1alpha2, Certificate_To_v1alpha1, SecretSource_To_v1alpha2,
         SecretSource_To_v1alpha1, Convert_To_Pointer, Convert_Pointer_To_string
    <3>4. ASSUME NEW p, NEW q, q = Pointer(Deref(p, "")) PROVE Deref(q, "") = Deref(p, "")
      BY <3>4 DEF Deref, Pointer, Nil
    <3>5. Deref(y.source.name, "") = Deref(x.source.name, "")
          /\ Deref(y.privateKeyPath, "") = Deref(x.privateKeyPath, "")
      BY <3>3, <3>4
    <3>6. createCertVolume(n, y) = createCertVolume(n, x)
      BY <3>3, <3>5 DEF createCertVolume
    <3> QED
      BY <3>1, <3>3, <3>5, <3>6
  <2> QED
    BY <2>1, <2>2
<1>8. a.tls # Nil =>
        /\ u.caCert = Nil <=> t.caCert = Nil
        /\ u.userCert = Nil <=> t.userCert = Nil
        /\ t.caCert # Nil => createCertVolume("ca", u.caCert[1]) = createCertVolume("ca", t.caCert[1])
        /\ t.userCert # Nil =>
              /\ createCertVolume("tls", u.userCert[1]) = createCertVolume("tls", t.userCert[1])
              /\ u.userCert[1].certPath = t.userCert[1].certPath
              /\ Deref(u.userCert[1].privateKeyPath, "") = Deref(t.userCert[1].privateKeyPath, "")
  <2> SUFFICES ASSUME a.tls # Nil
               PROVE  /\ u.caCert = Nil <=> t.caCert = Nil
                      /\ u.userCert = Nil <=> t.userCert = Nil
                      /\ t.caCert # Nil => createCertVolume("ca", u.caCert[1]) = createCertVolume("ca", t.caCert[1])
                      /\ t.userCert # Nil =>
                            /\ createCertVolume("tls", u.userCert[1]) = createCertVolume("tls", t.userCert[1])
                            /\ u.userCert[1].certPath = t.userCert[1].certPath
                            /\ Deref(u.userCert[1].privateKeyPath, "") = Deref(t.userCert[1].privateKeyPath, "")
    OBVIOUS
  <2>1. PICK c1, d1, c2, d2 : c1 = t.caCert /\ d1 = u.caCert /\ c2 = t.userCert /\ d2 = u.userCert
    OBVIOUS
  <2>a. /\ d1 = WhereSet(WhereSet(c1, Certificate_To_v1alpha1), Certificate_To_v1alpha2)
        /\ d2 = WhereSet(WhereSet(c2, Certificate_To_v1alpha1), Certificate_To_v1alpha2)
    BY <1>4, <2>1
  <2>2. /\ d1 = Nil <=> c1 = Nil
        /\ c1 # Nil => createCertVolume("ca", d1[1]) = createCertVolume("ca", c1[1])
    BY <1>7, <2>a, ZenonT(60)
  <2>3. /\ d2 = Nil <=> c2 = Nil
        /\ c2 # Nil => /\ createCertVolume("tls", d2[1]) = createCertVolume("tls", c2[1])
                       /\ d2[1].certPath = c2[1].certPath
                       /\ Deref(d2[1].privateKeyPath, "") = Deref(c2[1].privateKeyPath, "")
    BY <1>7, <2>a, ZenonT(60)
  <2> QED
    BY <2>1, <2>2, <2>3
<1>9. isTLSEnabled(a) => a.tls # Nil
  BY DEF isTLSEnabled
<1>10. hasTLSConfiguration(b) <=> hasTLSConfiguration(a)
  BY <1>3, <1>6, <1>8, <1>9 DEF hasTLSConfiguration
<1> QED
  BY <1>3, <1>6, <1>8, <1>9, <1>10

\* So is the port, where the one that is stored is not zero.
LEMMA PortKept ==
    ASSUME kind = "Perses", NEW a, NEW b, b = Rewritten(a),
           a.containerPort # Nil => a.containerPort[1] # 0
    PROVE  /\ Port(b) = Port(a) /\ b.containerPort # Nil
           /\ a.containerPort # Nil => b.containerPort[1] = a.containerPort[1]
           /\ a.containerPort = Nil => b.containerPort[1] = DefaultContainerPort
<1>1. PICK port, st, p, q : /\ port = Convert_Pointer_To_int32(a.containerPort)
                            /\ st = WhereSet(a.storage, StorageConfiguration_To_v1alpha1)
                            /\ p = a.containerPort /\ q = b.containerPort
  OBVIOUS
<1>2. q = Pointer(IF port = 0 THEN DefaultContainerPort ELSE port)
  BY <1>1, RewrittenFields
<1>3. q # Nil /\ q[1] = IF port = 0 THEN DefaultContainerPort ELSE port
  BY <1>2 DEF Pointer, Nil
<1>4. port = IF p = Nil THEN 0 ELSE p[1]
  BY <1>1 DEF Convert_Pointer_To_int32, Deref
<1>5. q[1] = IF p = Nil THEN DefaultContainerPort ELSE p[1]
  BY <1>1, <1>3, <1>4
<1> QED
  BY <1>1, <1>3, <1>5 DEF Port, Deref

\* So is the claim, where v1alpha1 has fields for all of it.
LEMMA ClaimKept ==
    ASSUME kind = "Perses", NEW a, NEW b, b = Rewritten(a),
           HubField("storage", a.storage), HasV1Form(a)
    PROVE  /\ ~ UsesEmptyDir(a) /\ ~ UsesEmptyDir(b)
           /\ VolumeClaimTemplate(b) = VolumeClaimTemplate(a)
<1>1. PICK port, mid, old, new : /\ port = Convert_Pointer_To_int32(a.containerPort)
                                 /\ mid = WhereSet(a.storage, StorageConfiguration_To_v1alpha1)
                                 /\ old = a.storage /\ new = b.storage
  OBVIOUS
<1>2. new = WhereSet(IF mid = Nil THEN Pointer([storageClass |-> Nil, size |-> 1]) ELSE mid,
                     StorageConfiguration_To_v1alpha2)
  BY <1>1, RewrittenFields
<1>3. Optional(old, IsHubStorage)
  BY <1>1 DEF HubField
<1>4. PICK sent : sent = IF mid = Nil THEN [storageClass |-> Nil, size |-> 1] ELSE mid[1]
  OBVIOUS
<1>5. new # Nil /\ new[1] = StorageConfiguration_To_v1alpha2(sent)
  BY <1>2, <1>4 DEF WhereSet, Pointer, Nil
<1>6. new[1].emptyDir = Nil
  BY <1>5 DEF StorageConfiguration_To_v1alpha2
<1>7. old # Nil => old[1] \in Elements(old)
  BY <1>3 DEF Optional, Pointer, Elements
<1>8. old # Nil => old[1].emptyDir = Nil
  BY <1>1, <1>7 DEF HasV1Form
<1>9. ~ UsesEmptyDir(a) /\ ~ UsesEmptyDir(b)
  BY <1>1, <1>6, <1>8 DEF UsesEmptyDir
<1> DEFINE rwo == Pointer("ReadWriteOnce")
           default == [storageClassName |-> Nil, requests |-> Pointer(1), accessModes |-> rwo]
<1>10. CASE old = Nil
  <2>1. sent = [storageClass |-> Nil, size |-> 1]
    BY <1>1, <1>4, <1>10 DEF WhereSet
  <2>2. PICK pvc : pvc = [storageClassName |-> Nil, requests |-> Pointer(1), accessModes |-> Nil]
    OBVIOUS
  <2>3. new[1].pvcTemplate = Pointer(pvc)
    BY <1>5, <2>1, <2>2 DEF StorageConfiguration_To_v1alpha2
  <2>4. new[1].pvcTemplate # Nil /\ new[1].pvcTemplate[1] = pvc
    BY <2>3 DEF Pointer, Nil
  <2>5. [pvc EXCEPT !.accessModes = IF @ = Nil THEN rwo ELSE @] = default
    BY <2>2
  <2>6. VolumeClaimTemplate(b) = default
    BY <1>1, <1>5, <2>4, <2>5 DEF VolumeClaimTemplate
  <2>7. VolumeClaimTemplate(a) = default
    BY <1>1, <1>10 DEF VolumeClaimTemplate
  <2> QED
    BY <1>9, <2>6, <2>7
<1>11. CASE old # Nil
  <2>1. sent = StorageConfiguration_To_v1alpha1(old[1])
    BY <1>1, <1>4, <1>11 DEF WhereSet, Pointer, Nil
  <2>2. PICK p : p = old[1].pvcTemplate
    OBVIOUS
  <2>3. CASE p = Nil
    <3>1. sent.storageClass = Nil /\ sent.size = 0
      BY <2>1, <2>2, <2>3 DEF StorageConfiguration_To_v1alpha1
    <3>2. new[1].pvcTemplate = Nil
      BY <1>5, <3>1 DEF StorageConfiguration_To_v1alpha2
    <3>3. VolumeClaimTemplate(b) = default /\ VolumeClaimTemplate(a) = default
      BY <1>1, <2>2, <2>3, <3>2 DEF VolumeClaimTemplate
    <3> QED
      BY <1>9, <3>3
  <2>4. CASE p # Nil
    <3>1. PICK pvc : pvc = p[1]
      OBVIOUS
    <3>2. p = Pointer(pvc) /\ IsClaim(pvc)
      BY <1>3, <1>11, <2>2, <2>4, <3>1 DEF Optional, IsHubStorage
    <3>3. pvc \in Elements(p)
      BY <3>1, <3>2 DEF Pointer, Elements
    <3>4. /\ pvc.accessModes = Nil /\ <<pvc.storageClassName, pvc.requests>> # <<Nil, Nil>>
          /\ pvc.requests # Pointer(0)
      BY <1>1, <1>7, <1>11, <2>2, <3>3 DEF HasV1Form
    <3>5. PICK class, requests : class = pvc.storageClassName /\ requests = pvc.requests
      OBVIOUS
    <3>6. sent.storageClass = class /\ sent.size = Deref(requests, 0)
      BY <2>1, <2>2, <2>4, <3>1, <3>5 DEF StorageConfiguration_To_v1alpha1
    <3>7. requests = Nil \/ requests = Pointer(requests[1])
      BY <3>2, <3>5 DEF IsClaim, IsPointer
    <3>8. /\ requests = Nil => sent.size = 0
          /\ requests # Nil => sent.size # 0 /\ requests = Pointer(sent.size)
      BY <3>4, <3>5, <3>6, <3>7 DEF Deref
    <3>9. ~ (sent.storageClass = Nil /\ sent.size = 0)
      BY <3>4, <3>5, <3>6, <3>8
    <3>10. (IF sent.size # 0 THEN Pointer(sent.size) ELSE Nil) = requests
      BY <3>8
    <3>11. pvc = [storageClassName |-> class, requests |-> requests, accessModes |-> Nil]
      BY <3>2, <3>4, <3>5 DEF IsClaim, HasFields
    <3>12. new[1].pvcTemplate = Pointer(pvc)
      BY <1>5, <3>6, <3>9, <3>10, <3>11 DEF StorageConfiguration_To_v1alpha2
    <3>13. new[1].pvcTemplate = p
      BY <3>2, <3>12
    <3> QED
      BY <1>1, <1>5, <1>9, <1>11, <2>2, <3>13 DEF VolumeClaimTemplate
  <2> QED
    BY <2>3, <2>4
<1> QED
  BY <1>9, <1>10, <1>11

\* The second list is the first with x after its head.
OneMore(s, t, x) ==
    /\ IsList(s) /\ IsList(t) /\ Len(s) >= 1 /\ Len(t) = Len(s) + 1
    /\ t[1] = s[1] /\ t[2] = x /\ \A i \in 2..Len(s) : t[i + 1] = s[i]

\* It stays so when both get the same end.
LEMMA OneMoreConcat ==
    ASSUME NEW s, NEW t, NEW x, OneMore(s, t, x), NEW u, IsList(u)
    PROVE  OneMore(s \o u, t \o u, x)
<1>1. PICK S : S = Elements(s) \cup Elements(t) \cup Elements(u)
  OBVIOUS
<1>2. s \in Seq(S) /\ t \in Seq(S) /\ u \in Seq(S)
  BY <1>1 DEF OneMore, IsList, Elements
<1>3. PICK m, n : m = Len(s) /\ n = Len(u)
  OBVIOUS
<1>4. m \in Nat /\ n \in Nat /\ m >= 1 /\ Len(t) = m + 1
  BY <1>2, <1>3 DEF OneMore
<1>5. /\ s \o u \in Seq(S) /\ Len(s \o u) = m + n
      /\ \A i \in 1..(m + n) : (s \o u)[i] = IF i <= m THEN s[i] ELSE u[i - m]
  BY <1>2, <1>3, ConcatProperties
<1>6. /\ t \o u \in Seq(S) /\ Len(t \o u) = m + 1 + n
      /\ \A i \in 1..(m + 1 + n) : (t \o u)[i] = IF i <= m + 1 THEN t[i] ELSE u[i - (m + 1)]
  <2>1. /\ t \o u \in Seq(S) /\ Len(t \o u) = Len(t) + n
        /\ \A i \in 1..(Len(t) + n) : (t \o u)[i] = IF i <= Len(t) THEN t[i] ELSE u[i - Len(t)]
    BY <1>2, <1>3, ConcatProperties
  <2> QED
    BY <1>4, <2>1
<1>7. PICK v, w : v = s \o u /\ w = t \o u
  OBVIOUS
<1>8. /\ \A i \in 1..(m + n) : v[i] = IF i <= m THEN s[i] ELSE u[i - m]
      /\ \A i \in 1..(m + 1 + n) : w[i] = IF i <= m + 1 THEN t[i] ELSE u[i - (m + 1)]
  BY <1>5, <1>6, <1>7
<1>9. t[1] = s[1] /\ t[2] = x /\ \A i \in 2..m : t[i + 1] = s[i]
  BY <1>3 DEF OneMore
<1>10. w[1] = v[1] /\ w[2] = x
  BY <1>4, <1>8, <1>9
<1>11. ASSUME NEW i \in 2..(m + n) PROVE w[i + 1] = v[i]
  <2>1. CASE i <= m
    <3>1. i + 1 \in 1..(m + 1 + n) /\ i + 1 <= m + 1 /\ i \in 1..(m + n) /\ i \in 2..m
      BY <1>4, <2>1
    <3>2. w[i + 1] = t[i + 1] /\ v[i] = s[i]
      BY <1>8, <2>1, <3>1
    <3> QED
      BY <1>9, <3>1, <3>2
  <2>2. CASE i > m
    <3>1. w[i + 1] = u[(i + 1) - (m + 1)] /\ v[i] = u[i - m]
      BY <1>4, <1>8, <2>2
    <3>2. (i + 1) - (m + 1) = i - m
      BY <1>4
    <3> QED
      BY <3>1, <3>2
  <2> QED
    BY <1>4, <2>1, <2>2
<1>12. IsList(v) /\ IsList(w)
  BY <1>5, <1>6, <1>7, SeqIsList
<1>13. Len(v) = m + n /\ Len(w) = m + 1 + n
  BY <1>5, <1>6, <1>7
<1>14. OneMore(v, w, x)
  BY <1>4, <1>10, <1>11, <1>12, <1>13 DEF OneMore
<1> QED
  BY <1>7, <1>14

\* The first is then the second without that entry.
LEMMA OneMoreRemoved ==
    ASSUME NEW s, NEW t, NEW x, OneMore(s, t, x)
    PROVE  2 \in DOMAIN t /\ t[2] = x /\ s = RemoveAt(t, 2)
<1>1. PICK S : S = Elements(s) \cup Elements(t)
  OBVIOUS
<1>2. s \in Seq(S) /\ t \in Seq(S)
  BY <1>1 DEF OneMore, IsList, Elements
<1>3. PICK m : m = Len(s)
  OBVIOUS
<1>4. m \in Nat /\ m >= 1 /\ Len(t) = m + 1 /\ DOMAIN t = 1..(m + 1)
  BY <1>2, <1>3 DEF OneMore
<1>5. PICK h, e : h = SubSeq(t, 1, 1) /\ e = SubSeq(t, 3, m + 1)
  OBVIOUS
<1>6. h \in Seq(S) /\ Len(h) = 1 /\ h[1] = t[1]
  BY <1>2, <1>4, <1>5
<1>7. e \in Seq(S) /\ Len(e) = m - 1 /\ \A i \in 1..(m - 1) : e[i] = t[i + 2]
  BY <1>2, <1>4, <1>5
<1>8. PICK r : r = h \o e
  OBVIOUS
<1>9. /\ r \in Seq(S) /\ Len(r) = m
      /\ \A i \in 1..m : r[i] = IF i <= 1 THEN h[i] ELSE e[i - 1]
  <2>1. /\ h \o e \in Seq(S) /\ Len(h \o e) = Len(h) + Len(e)
        /\ \A i \in 1..(Len(h) + Len(e)) : (h \o e)[i] = IF i <= Len(h) THEN h[i] ELSE e[i - Len(h)]
    BY <1>6, <1>7, ConcatProperties
  <2>2. Len(h) + Len(e) = m
    BY <1>4, <1>6, <1>7
  <2> QED
    BY <1>6, <1>8, <2>1, <2>2
<1>10. ASSUME NEW i \in 1..m PROVE r[i] = s[i]
  <2>1. CASE i = 1
    BY <1>4, <1>6, <1>9, <2>1 DEF OneMore
  <2>2. CASE i # 1
    <3>1. i - 1 \in 1..(m - 1) /\ (i - 1) + 2 = i + 1 /\ i \in 2..m
      BY <1>4, <2>2
    <3>2. r[i] = e[i - 1] /\ e[i - 1] = t[i + 1]
      BY <1>4, <1>7, <1>9, <2>2, <3>1
    <3>3. t[i + 1] = s[i]
      BY <1>3, <3>1 DEF OneMore
    <3> QED
      BY <3>2, <3>3
  <2> QED
    BY <2>1, <2>2
<1>11. r = s
  BY <1>2, <1>3, <1>9, <1>10, SeqEqual
<1>12. RemoveAt(t, 2) = r
  BY <1>4, <1>5, <1>8 DEF RemoveAt
<1>13. t[2] = x
  BY DEF OneMore
<1> QED
  BY <1>4, <1>11, <1>12, <1>13

\* The arguments tell the server the same: a listen address comes in where the spec had
\* no port, and it is the default one.
LEMMA ArgsKept ==
    ASSUME kind = "Perses", NEW a, NEW b, b = Rewritten(a), NEW flags,
           IsList(a.args), a.log = Nil, a.containerPort # Nil => a.containerPort[1] # 0
    PROVE  SameArgs(GetPersesArgs(a, flags), GetPersesArgs(b, flags))
<1> DEFINE Listen(spec) == When(spec.containerPort # Nil, << <<"listen-address", spec.containerPort[1]>> >>)
           Cert(spec) == When(hasTLSConfiguration(spec),
                             << <<"tls-cert-file", <<"tls", spec.tls[1].userCert[1].certPath>> >>,
                                <<"tls-key-file",
                                  <<"tls", Deref(spec.tls[1].userCert[1].privateKeyPath, "")>> >> >>)
           Log(spec) == When(spec.log # Nil, << <<"log", spec.log[1]>> >>)
<1>1. PICK p1, p4, p5 :
        /\ p1 = << <<"config", <<"etc", "perses", "config", "config.yaml">> >> >>
        /\ p4 = When(flags.tlsConfigureOperands /\ flags.tlsMinVersion # "",
                     << <<"tls-min-version", k8sToPersesTLSVersion(flags.tlsMinVersion)>> >>)
        /\ p5 = When(flags.tlsConfigureOperands /\ flags.tlsCipherSuites # "",
                     << <<"tls-cipher-suites", flags.tlsCipherSuites>> >>)
  OBVIOUS
<1>2. /\ GetPersesArgs(a, flags) = p1 \o Listen(a) \o Cert(a) \o p4 \o p5 \o Log(a) \o a.args
      /\ GetPersesArgs(b, flags) = p1 \o Listen(b) \o Cert(b) \o p4 \o p5 \o Log(b) \o b.args
  BY <1>1, Zenon DEF GetPersesArgs
<1>3. b.args = a.args /\ b.log = Nil
  <2>1. PICK port, st : /\ port = Convert_Pointer_To_int32(a.containerPort)
                        /\ st = WhereSet(a.storage, StorageConfiguration_To_v1alpha1)
    OBVIOUS
  <2>2. b.args = a.args /\ \A f \in DOMAIN HubOnly : b[f] = HubOnly[f]
    BY <2>1, RewrittenFields
  <2> QED
    BY <2>2 DEF HubOnly
<1>4. Cert(b) = Cert(a)
  <2>1. CASE ~ hasTLSConfiguration(a)
    BY <2>1, TLSKept DEF When
  <2>2. CASE hasTLSConfiguration(a)
    <3>1. isTLSEnabled(a) /\ a.tls[1].userCert # Nil
      BY <2>2 DEF hasTLSConfiguration
    <3>2. /\ b.tls[1].userCert[1].certPath = a.tls[1].userCert[1].certPath
          /\ Deref(b.tls[1].userCert[1].privateKeyPath, "") = Deref(a.tls[1].userCert[1].privateKeyPath, "")
          /\ hasTLSConfiguration(b)
      BY <2>2, <3>1, TLSKept
    <3> QED
      BY <2>2, <3>2 DEF When
  <2> QED
    BY <2>1, <2>2
<1>5. Log(a) = <<>> /\ Log(b) = <<>>
  BY <1>3 DEF When
<1>6. /\ a.containerPort # Nil => Listen(b) = Listen(a)
      /\ a.containerPort = Nil => Listen(a) = <<>> /\ Listen(b) = << <<"listen-address", DefaultContainerPort>> >>
  BY PortKept DEF When
<1>7. IsList(Cert(a)) /\ IsList(p4) /\ IsList(p5) /\ IsList(<<>>)
  <2>1. \A c, x, y : IsList(When(c, <<x>>)) /\ IsList(When(c, <<x, y>>)) /\ IsList(<<>>)
    BY ShortLists DEF When
  <2>2. IsList(Cert(a))
    BY <2>1
  <2> HIDE DEF Cert
  <2> QED
    BY <1>1, <2>1, <2>2
<1>8. PICK la, lb, c, e, n, l :
        /\ la = Listen(a) /\ lb = Listen(b) /\ c = Cert(a) /\ e = <<>> /\ n = a.args
        /\ l = <<"listen-address", DefaultContainerPort>>
  OBVIOUS
<1> HIDE DEF Listen, Cert, Log
<1>9. /\ GetPersesArgs(a, flags) = p1 \o la \o c \o p4 \o p5 \o e \o n
      /\ GetPersesArgs(b, flags) = p1 \o lb \o c \o p4 \o p5 \o e \o n
  BY <1>2, <1>3, <1>4, <1>5, <1>8
<1>10. CASE a.containerPort # Nil
  BY <1>6, <1>8, <1>9, <1>10 DEF SameArgs
<1>11. CASE a.containerPort = Nil
  <2>1. la = <<>> /\ lb = <<l>>
    BY <1>6, <1>8, <1>11
  <2>2. PICK x : x = <<"config", <<"etc", "perses", "config", "config.yaml">> >>
    OBVIOUS
  <2>3. p1 \o la = <<x>> /\ p1 \o lb = <<x, l>>
    <3>1. p1 = <<x>>
      BY <1>1, <2>2
    <3>2. <<x>> \o <<l>> = <<x, l>>
      BY PairPath
    <3>3. <<x>> \o <<>> = <<x>>
      OBVIOUS
    <3> QED
      BY <2>1, <3>1, <3>2, <3>3
  <2>4. OneMore(<<x>>, <<x, l>>, l)
    BY ShortLists DEF OneMore
  <2>5. IsList(c) /\ IsList(p4) /\ IsList(p5) /\ IsList(e) /\ IsList(n)
    BY <1>7, <1>8
  <2>6. PICK s1, t1 : s1 = p1 \o la /\ t1 = p1 \o lb
    OBVIOUS
  <2>7. OneMore(s1, t1, l)
    BY <2>3, <2>4, <2>6
  <2>8. OneMore(s1 \o c, t1 \o c, l)
    BY <2>5, <2>7, OneMoreConcat
  <2>9. OneMore(s1 \o c \o p4, t1 \o c \o p4, l)
    BY <2>5, <2>8, OneMoreConcat
  <2>10. OneMore(s1 \o c \o p4 \o p5, t1 \o c \o p4 \o p5, l)
    BY <2>5, <2>9, OneMoreConcat
  <2>11. OneMore(s1 \o c \o p4 \o p5 \o e, t1 \o c \o p4 \o p5 \o e, l)
    BY <2>5, <2>10, OneMoreConcat
  <2>12. OneMore(s1 \o c \o p4 \o p5 \o e \o n, t1 \o c \o p4 \o p5 \o e \o n, l)
    BY <2>5, <2>11, OneMoreConcat
  <2>13. PICK s, t : s = GetPersesArgs(a, flags) /\ t = GetPersesArgs(b, flags)
    OBVIOUS
  <2>14. OneMore(s, t, l)
    BY <1>9, <2>6, <2>12, <2>13
  <2>15. 2 \in DOMAIN t /\ t[2] = l /\ s = RemoveAt(t, 2)
    BY <2>14, OneMoreRemoved
  <2> QED
    BY <1>8, <2>13, <2>15 DEF SameArgs
<1> QED
  BY <1>10, <1>11

\* The volumes and mounts are the same, where the spec has none of its own.
LEMMA VolumesKept ==
    ASSUME kind = "Perses", NEW a, NEW b, b = Rewritten(a),
           HubField("storage", a.storage), HasV1Form(a)
    PROVE  GetVolumes(b) = GetVolumes(a) /\ GetVolumeMounts(b) = GetVolumeMounts(a)
<1> DEFINE Storage(spec) == When(spec.config.file,
                                << Volume("storage", IF UsesEmptyDir(spec) THEN <<"emptyDir", "">>
                                                                           ELSE <<"claim", "">>) >>)
           CA(spec) == When(isTLSEnabled(spec) /\ spec.tls[1].caCert # Nil,
                            << createCertVolume("ca", spec.tls[1].caCert[1]) >>)
           User(spec) == When(isTLSEnabled(spec) /\ spec.tls[1].userCert # Nil,
                              << createCertVolume("tls", spec.tls[1].userCert[1]) >>)
           MStorage(spec) == When(spec.config.file, << Mount("storage", <<"perses">>) >>)
           MCA(spec) == When(isTLSEnabled(spec) /\ spec.tls[1].caCert # Nil, << Mount("ca", <<"ca">>) >>)
           MUser(spec) == When(isTLSEnabled(spec) /\ spec.tls[1].userCert # Nil, << Mount("tls", <<"tls">>) >>)
<1>1. b.config = a.config /\ \A f \in DOMAIN HubOnly : b[f] = HubOnly[f]
  <2>1. PICK port, st : /\ port = Convert_Pointer_To_int32(a.containerPort)
                        /\ st = WhereSet(a.storage, StorageConfiguration_To_v1alpha1)
    OBVIOUS
  <2> QED
    BY <2>1, RewrittenFields
<1>2. \A f \in DOMAIN HubOnly : a[f] = HubOnly[f]
  BY DEF HasV1Form
<1>3. b.provisioning = a.provisioning /\ b.volumes = a.volumes /\ b.volumeMounts = a.volumeMounts
  <2>1. \A f \in DOMAIN HubOnly : b[f] = a[f]
    BY <1>1, <1>2
  <2> QED
    BY <2>1 DEF HubOnly
<1>4. Storage(b) = Storage(a) /\ MStorage(b) = MStorage(a)
  BY <1>1, ClaimKept
<1>5. CA(b) = CA(a) /\ MCA(b) = MCA(a)
  <2>1. CASE isTLSEnabled(a) /\ a.tls[1].caCert # Nil
    BY <2>1, TLSKept DEF When
  <2>2. CASE ~ (isTLSEnabled(a) /\ a.tls[1].caCert # Nil)
    BY <2>2, TLSKept DEF When
  <2> QED
    BY <2>1, <2>2
<1>6. User(b) = User(a) /\ MUser(b) = MUser(a)
  <2>1. CASE isTLSEnabled(a) /\ a.tls[1].userCert # Nil
    BY <2>1, TLSKept DEF When
  <2>2. CASE ~ (isTLSEnabled(a) /\ a.tls[1].userCert # Nil)
    BY <2>2, TLSKept DEF When
  <2> QED
    BY <2>1, <2>2
<1>7. SecretRefs(b) = SecretRefs(a)
  BY <1>3 DEF SecretRefs
<1>8. GetVolumes(b) = GetVolumes(a)
  <2>1. PICK base, refs : /\ base = << Volume("config", <<"configmap", "config">>),
                                       Volume("plugins", <<"emptyDir", "">>) >>
                          /\ refs = [i \in DOMAIN SecretRefs(a) |-> SecretVolume(SecretRefs(a)[i])]
    OBVIOUS
  <2>2. refs = [i \in DOMAIN SecretRefs(b) |-> SecretVolume(SecretRefs(b)[i])]
    BY <1>7, <2>1
  <2>3. GetVolumes(a) = base \o Storage(a) \o CA(a) \o User(a) \o refs \o a.volumes
    BY <2>1, Zenon DEF GetVolumes
  <2>4. GetVolumes(b) = base \o Storage(b) \o CA(b) \o User(b) \o refs \o b.volumes
    BY <2>1, <2>2, Zenon DEF GetVolumes
  <2> HIDE DEF Storage, CA, User
  <2> QED
    BY <1>3, <1>4, <1>5, <1>6, <2>3, <2>4
<1>9. GetVolumeMounts(b) = GetVolumeMounts(a)
  <2>1. PICK base, refs : /\ base = << Mount("config", <<"etc", "perses", "config">>),
                                       Mount("plugins", <<"etc", "perses", "plugins">>) >>
                          /\ refs = [i \in DOMAIN SecretRefs(a) |-> SecretMount(SecretRefs(a)[i])]
    OBVIOUS
  <2>2. refs = [i \in DOMAIN SecretRefs(b) |-> SecretMount(SecretRefs(b)[i])]
    BY <1>7, <2>1
  <2>3. GetVolumeMounts(a) = base \o MStorage(a) \o MCA(a) \o MUser(a) \o refs \o a.volumeMounts
    BY <2>1, Zenon DEF GetVolumeMounts
  <2>4. GetVolumeMounts(b) = base \o MStorage(b) \o MCA(b) \o MUser(b) \o refs \o b.volumeMounts
    BY <2>1, <2>2, Zenon DEF GetVolumeMounts
  <2> HIDE DEF MStorage, MCA, MUser
  <2> QED
    BY <1>3, <1>4, <1>5, <1>6, <2>3, <2>4
<1> QED
  BY <1>8, <1>9

\* So is the rest of the pod.
LEMMA TemplateKept ==
    ASSUME kind = "Perses", NEW a, NEW b, b = Rewritten(a), NEW flags,
           V2SpecOK("Perses", a), a.containerPort # Nil => a.containerPort[1] # 0, HasV1Form(a),
           NEW old, old = PodTemplateSpec(Name, a, flags), NEW new, new = PodTemplateSpec(Name, b, flags)
    PROVE  SameArgs(old.args, new.args) /\ [new EXCEPT !.args = old.args] = old
<1>1. IsList(a.args) /\ HubField("storage", a.storage)
  BY HubFields DEF HubField, SchemaField
<1>2. /\ b.config = a.config /\ b.scheduling = a.scheduling /\ b.probes = a.probes
      /\ \A f \in DOMAIN HubOnly : b[f] = HubOnly[f]
  <2>1. PICK port, st : /\ port = Convert_Pointer_To_int32(a.containerPort)
                        /\ st = WhereSet(a.storage, StorageConfiguration_To_v1alpha1)
    OBVIOUS
  <2> QED
    BY <2>1, RewrittenFields
<1>3. \A f \in DOMAIN HubOnly : a[f] = HubOnly[f]
  BY DEF HasV1Form
<1>4. /\ a.log = Nil /\ b.env = a.env /\ b.resources = a.resources
      /\ b.securityContexts = a.securityContexts /\ b.priorityClassName = a.priorityClassName
  <2>1. \A f \in DOMAIN HubOnly : b[f] = a[f]
    BY <1>2, <1>3
  <2>2. a.log = Nil
    BY <1>3 DEF HubOnly
  <2> QED
    BY <2>1, <2>2 DEF HubOnly
<1>5. SameArgs(GetPersesArgs(a, flags), GetPersesArgs(b, flags))
  BY <1>1, <1>4, ArgsKept
<1>6. GetVolumes(b) = GetVolumes(a) /\ GetVolumeMounts(b) = GetVolumeMounts(a)
  BY <1>1, VolumesKept
<1>7. /\ LabelsForPerses(Name, b) = LabelsForPerses(Name, a)
      /\ ImageForPerses(b, flags) = ImageForPerses(a, flags)
      /\ Deref(b.serviceAccountName, "") = Deref(a.serviceAccountName, "")
  BY NamesKept
<1>8. Port(b) = Port(a)
  BY PortKept
<1>9. GetProbes(b) = GetProbes(a)
  BY <1>2, <1>8 DEF GetProbes
<1>10. GetSecurityContexts(b) = GetSecurityContexts(a)
  BY <1>4 DEF GetSecurityContexts
<1>11. /\ old.args = GetPersesArgs(a, flags) /\ new.args = GetPersesArgs(b, flags)
  BY DEF PodTemplateSpec
<1>12. [new EXCEPT !.args = old.args] = old
  <2>1. PICK labels, image, port, mounts, x, y, probes :
          /\ labels = LabelsForPerses(Name, a) /\ image = ImageForPerses(a, flags) /\ port = Port(a)
          /\ mounts = GetVolumeMounts(a) /\ x = GetPersesArgs(a, flags) /\ y = GetPersesArgs(b, flags)
          /\ probes = GetProbes(a)
    OBVIOUS
  <2>2. PICK volumes, env, resources, scheduling, contexts, account, class :
          /\ volumes = GetVolumes(a) /\ env = a.env /\ resources = a.resources
          /\ scheduling = a.scheduling /\ contexts = GetSecurityContexts(a)
          /\ account = Deref(a.serviceAccountName, "") /\ class = Deref(a.priorityClassName, "")
    OBVIOUS
  <2>3. old = [labels |-> labels, image |-> image, containerPort |-> port, volumeMounts |-> mounts,
               args |-> x, probes |-> probes, volumes |-> volumes, env |-> env,
               resources |-> resources, scheduling |-> scheduling, securityContexts |-> contexts,
               serviceAccountName |-> account, priorityClassName |-> class]
    BY <2>1, <2>2 DEF PodTemplateSpec
  <2>4. new = [labels |-> labels, image |-> image, containerPort |-> port, volumeMounts |-> mounts,
               args |-> y, probes |-> probes, volumes |-> volumes, env |-> env,
               resources |-> resources, scheduling |-> scheduling, securityContexts |-> contexts,
               serviceAccountName |-> account, priorityClassName |-> class]
    BY <1>2, <1>4, <1>6, <1>7, <1>8, <1>9, <1>10, <2>1, <2>2 DEF PodTemplateSpec
  <2>5. old.args = x
    BY <2>3
  <2> QED
    BY <2>3, <2>4, <2>5
<1> QED
  BY <1>5, <1>11, <1>12

\* A Perses read and sent back through v1alpha1 runs as it did.  The labels, image,
\* account, certificates, volumes, mounts and claim that the operator makes of the new
\* spec (PodTemplateSpec, VolumeClaimTemplate, createPersesService) are the ones it made
\* of the old, for every spec v1alpha1 has fields for and every setting of the operator;
\* the arguments differ at most by the default listen address.
THEOREM RewriteKeepsDeployment == Spec => []V1RewriteKeepsDeployment
<1>1. ApiInv => V1RewriteKeepsDeployment
  <2> SUFFICES ASSUME ApiInv, kind = "Perses", stored # Nil, HasV1Form(stored[1].spec)
               PROVE  V1RewriteKeepsDeployment
    BY Zenon DEF V1RewriteKeepsDeployment
  <2>1. PICK a, b : a = stored[1].spec /\ b = Resent.spec
    OBVIOUS
  <2>2. /\ V2SpecOK("Perses", a) /\ HasV1Form(a)
        /\ a.containerPort # Nil => a.containerPort[1] # 0
    BY <2>1 DEF ApiInv, HubObject
  <2>3. b = Rewritten(a)
    <3>1. kind \in Kinds
      BY DEF ApiInv, TypeOK
    <3> QED
      BY <2>1, <3>1, ResentSpec DEF Rewritten, SpecTo, SpecFrom
  <2>4. PICK old, new : old = PodTemplateSpec(Name, a, op) /\ new = PodTemplateSpec(Name, b, op)
    OBVIOUS
  <2>5. SameArgs(old.args, new.args) /\ [new EXCEPT !.args = old.args] = old
    BY <2>2, <2>3, <2>4, TemplateKept
  <2>6. /\ LabelsForPerses(Name, b) = LabelsForPerses(Name, a)
        /\ ImageForPerses(b, op) = ImageForPerses(a, op)
        /\ ServiceName(Name, b) = ServiceName(Name, a)
    BY <2>3, NamesKept
  <2>7. Port(b) = Port(a)
    BY <2>2, <2>3, PortKept
  <2>8. /\ ~ UsesEmptyDir(a) /\ ~ UsesEmptyDir(b)
         /\ VolumeClaimTemplate(b) = VolumeClaimTemplate(a)
    BY <2>2, <2>3, HubFields, ClaimKept
  <2>9. b.config = a.config /\ b.replicas = a.replicas
    <3>1. PICK port, st : /\ port = Convert_Pointer_To_int32(a.containerPort)
                          /\ st = WhereSet(a.storage, StorageConfiguration_To_v1alpha1)
      OBVIOUS
    <3> QED
      BY <2>3, <3>1, RewrittenFields
  <2>10. createPersesService(Name, b) = createPersesService(Name, a)
    BY <2>6, <2>7 DEF createPersesService
  <2>11. PICK labels, replicas, claim : /\ labels = LabelsForPerses(Name, a) /\ replicas = a.replicas
                                        /\ claim = VolumeClaimTemplate(a)
    OBVIOUS
  <2>12. SameWorkload(createPersesDeployment(Name, a, op), createPersesDeployment(Name, b, op))
    <3>1. PICK x, y : /\ x = [selector |-> labels, replicas |-> replicas, template |-> old]
                      /\ y = [selector |-> labels, replicas |-> replicas, template |-> new]
      OBVIOUS
    <3>2. [y EXCEPT !.template.args = x.template.args] = x /\ x.template = old /\ y.template = new
      BY <2>5, <3>1
    <3>3. SameWorkload(Pointer(x), Pointer(y)) /\ SameWorkload(Nil, Nil)
      BY <2>5, <3>2 DEF SameWorkload, Pointer, Nil
    <3>4. /\ createPersesDeployment(Name, a, op) = When(ImageForPerses(a, op) # Nil, Pointer(x))
          /\ createPersesDeployment(Name, b, op) = When(ImageForPerses(a, op) # Nil, Pointer(y))
      BY <2>4, <2>6, <2>9, <2>11, <3>1 DEF createPersesDeployment
    <3> QED
      BY <3>3, <3>4 DEF When, Nil
  <2>13. SameWorkload(createPersesStatefulSet(Name, a, op), createPersesStatefulSet(Name, b, op))
    <3>1. PICK x, y : /\ x = [selector |-> labels, replicas |-> replicas, template |-> old,
                              volumeClaimTemplate |-> claim]
                      /\ y = [selector |-> labels, replicas |-> replicas, template |-> new,
                              volumeClaimTemplate |-> claim]
      OBVIOUS
    <3>2. [y EXCEPT !.template.args = x.template.args] = x /\ x.template = old /\ y.template = new
      BY <2>5, <3>1
    <3>3. SameWorkload(Pointer(x), Pointer(y)) /\ SameWorkload(Nil, Nil)
      BY <2>5, <3>2 DEF SameWorkload, Pointer, Nil
    <3>4. /\ createPersesStatefulSet(Name, a, op) = When(ImageForPerses(a, op) # Nil, Pointer(x))
          /\ createPersesStatefulSet(Name, b, op) = When(ImageForPerses(a, op) # Nil, Pointer(y))
      BY <2>4, <2>6, <2>8, <2>9, <2>11, <3>1 DEF createPersesStatefulSet
    <3> QED
      BY <3>3, <3>4 DEF When, Nil
  <2>14. PICK was, is : was = Wanted(a) /\ is = Wanted(b)
    OBVIOUS
  <2>15. /\ is.service = was.service
         /\ SameWorkload(was.deployment, is.deployment) /\ SameWorkload(was.statefulSet, is.statefulSet)
    <3>1. /\ RequiresDeployment(b) <=> RequiresDeployment(a)
          /\ RequiresStatefulSet(b) <=> RequiresStatefulSet(a)
      BY <2>8, <2>9 DEF RequiresDeployment, RequiresStatefulSet
    <3>2. SameWorkload(<<>>, <<>>)
      BY DEF SameWorkload, Nil
    <3>3. /\ was.service = createPersesService(Name, a) /\ is.service = createPersesService(Name, b)
          /\ was.deployment = When(RequiresDeployment(a), createPersesDeployment(Name, a, op))
          /\ is.deployment = When(RequiresDeployment(b), createPersesDeployment(Name, b, op))
          /\ was.statefulSet = When(RequiresStatefulSet(a), createPersesStatefulSet(Name, a, op))
          /\ is.statefulSet = When(RequiresStatefulSet(b), createPersesStatefulSet(Name, b, op))
      BY <2>14 DEF Wanted
    <3> QED
      BY <2>10, <2>12, <2>13, <3>1, <3>2, <3>3 DEF When
  <2> QED
    BY <2>1, <2>14, <2>15, Zenon DEF V1RewriteKeepsDeployment
<1> QED
  BY <1>1, ApiInvariant, PTL

=============================================================================
