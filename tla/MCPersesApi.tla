----------------------------- MODULE MCPersesApi -----------------------------
(***************************************************************************)
(* Instances of PersesApi: a resource starts from a small spec and its     *)
(* clients set one field at a time, to values chosen so that every branch  *)
(* of the conversions and of the pod template is taken.                    *)
(***************************************************************************)
EXTENDS PersesApi

\* Two references whose flat names the sanitising makes equal, and one apart.
Refs == [name : {"a.b", "a-b", "c"}, key : {"k"}]
MCFlatName == [r \in Refs |-> r.name]
MCTaggedImages == {"default:1", "mine:1"}
MCVolumeSafe == [n \in {"a.b", "a-b", "c"} |-> IF n = "a.b" THEN "a-b" ELSE n]
Ref(n) == [name |-> n, key |-> "k"]

Flags ==
    [image |-> "default:1", tlsMinVersion |-> "VersionTLS12", tlsCipherSuites |-> "",
     tlsConfigureOperands |-> TRUE, serverURL |-> Nil]
MCOperatorFlags ==
    {Flags, [Flags EXCEPT !.tlsConfigureOperands = FALSE,
                          !.serverURL = Pointer([scheme |-> "http", host |-> "proxy", port |-> 80])]}
DefaultFlags == {Flags}

-----------------------------------------------------------------------------
V1Source == {[type |-> "secret", name |-> "s", namespace |-> "n"],
             [type |-> "configmap", name |-> "s", namespace |-> "n"],
             [type |-> "file", name |-> "", namespace |-> ""]}
V1Cert == [source : V1Source, certPath : {"crt"}, privateKeyPath : {"", "key"}]
V1TLS(enable, ca, cert) ==
    [enable |-> enable, caCert |-> ca, userCert |-> cert, insecureSkipVerify |-> FALSE]
V1TLSs ==
    {V1TLS(TRUE, Nil, Pointer(c)) : c \in V1Cert}
    \cup {V1TLS(e, Pointer(c), Pointer(c)) : e \in BOOLEAN, c \in {x \in V1Cert : x.source.type = "secret"}}
    \cup {V1TLS(TRUE, Nil, Nil)}
V1NoClient == [basicAuth |-> Nil, oauth |-> Nil, tls |-> Nil, kubernetesAuth |-> Nil]
V1OAuth == [source : V1Source, clientIDPath : {"", "id"}, clientSecretPath : {"secret"},
            endpoint : {"e"}, authStyle : {0, 1}]
V1Clients ==
    {[V1NoClient EXCEPT !.basicAuth = Pointer([source |-> s, username |-> "u", passwordPath |-> "p"])]
        : s \in V1Source}
    \cup {[V1NoClient EXCEPT !.oauth = Pointer(o)] : o \in V1OAuth}
    \cup {[V1NoClient EXCEPT !.tls = Pointer(V1TLS(TRUE, Nil, Nil)),
                             !.kubernetesAuth = Pointer([enable |-> e])] : e \in BOOLEAN}

Labels == [team |-> "t", managedBy |-> "user"]
Database(kinds) == [file |-> "file" \in kinds, sql |-> "sql" \in kinds]

V1Perses ==
    [metadata |-> Nil, client |-> Nil, config |-> Database({"file"}), args |-> <<>>,
     containerPort |-> 0, replicas |-> Nil, scheduling |-> Nil, image |-> "", service |-> Nil,
     probes |-> Nil, tls |-> Nil, storage |-> Nil, serviceAccountName |-> ""]

V1PersesEdits ==
    {<<"metadata", Pointer([labels |-> Labels, annotations |-> "a"])>>,
     <<"config", Database({"sql"})>>, <<"args", << <<"user", "u">> >> >>,
     <<"containerPort", 9090>>, <<"replicas", Pointer(2)>>, <<"image", "mine:1">>, <<"image", "mine">>,
     <<"service", Pointer([name |-> "", annotations |-> "a"])>>,
     <<"service", Pointer([name |-> "svc", annotations |-> "a"])>>,
     <<"probes", Pointer("p")>>, <<"serviceAccountName", "sa">>,
     <<"storage", Nil>>,
     <<"storage", Pointer([storageClass |-> Nil, size |-> 0])>>,
     <<"storage", Pointer([storageClass |-> Pointer("fast"), size |-> 0])>>,
     <<"storage", Pointer([storageClass |-> Nil, size |-> 2])>>}
    \cup {<<"tls", Pointer(t)>> : t \in V1TLSs}
    \cup {<<"client", Pointer(c)>> : c \in V1Clients}

V2Perses == PersesSpec_To_v1alpha2(V1Perses)

Bare == [V2Perses EXCEPT !.containerPort = Nil, !.image = Nil, !.serviceAccountName = Nil]

Claim(class, requests, modes) ==
    Pointer([emptyDir |-> Nil,
             pvcTemplate |-> Pointer([storageClassName |-> class, requests |-> requests,
                                      accessModes |-> modes])])
UserVolume(prefix, n) == [name |-> <<prefix, n>>, source |-> <<"secret", "u">>]
UserMount(n, path) == [name |-> <<"", n>>, path |-> path]

V2PersesEdits ==
    {<<"metadata", Nil>>, <<"config", Database({"sql"})>>, <<"config", Database({"file", "sql"})>>,
     <<"config", Database({})>>, <<"containerPort", Nil>>, <<"containerPort", Pointer(0)>>,
     <<"containerPort", Pointer(9090)>>, <<"image", Pointer("mine:1")>>,
     <<"service", Pointer([name |-> Nil, annotations |-> "a"])>>,
     <<"service", Pointer([name |-> Pointer("svc"), annotations |-> "a"])>>,
     <<"probes", Pointer("p")>>, <<"log", Pointer("debug")>>,
     <<"securityContexts", Pointer("mine")>>, <<"priorityClassName", Pointer("")>>,
     <<"storage", Pointer([emptyDir |-> Pointer("e"), pvcTemplate |-> Nil])>>,
     <<"storage", Pointer([emptyDir |-> Nil, pvcTemplate |-> Nil])>>,
     <<"storage", Claim(Nil, Pointer(2), Nil)>>, <<"storage", Claim(Pointer("fast"), Pointer(0), Nil)>>,
     <<"args", << <<"listen-address", 9090>>, <<"user", "u">> >> >>,
     <<"storage", Claim(Pointer("fast"), Pointer(1), Pointer("ReadWriteMany"))>>,
     <<"provisioning", Pointer(<<Ref("c")>>)>>,
     <<"provisioning", Pointer(<<Ref("a-b"), Ref("c")>>)>>,
     <<"provisioning", Pointer(<<Ref("a-b"), Ref("a.b")>>)>>}
    \cup {<<"volumes", <<UserVolume(p, n)>> >> : p \in {"", "provisioning-"},
                                               n \in {"data", "config", "tls", "c"}}
    \cup {<<"volumeMounts", <<UserMount("data", path)>> >> :
             path \in {<<"data">>, <<"tls">>, <<"perses">>, <<"etc", "perses">>,
                       <<"etc", "perses", "config", "extra">>,
                       <<"etc", "perses", "provisioning", "secrets", "c">>}}
    \cup {<<"volumeMounts", <<UserMount("config", <<"data">>)>> >>}
    \cup {<<"tls", Pointer(TLS_To_v1alpha2(t))>> : t \in V1TLSs}

-----------------------------------------------------------------------------
V1Datasource == [config |-> "c1", client |-> Nil]
V1DatasourceEdits == {<<"config", "c2">>} \cup {<<"client", Pointer(c)>> : c \in V1Clients}
V2Datasource == [config |-> "c1", client |-> Nil, instanceSelector |-> Nil]

MCNewV1Specs ==
    [Perses |-> {V1Perses}, PersesDashboard |-> {[config |-> "c1"]},
     PersesDatasource |-> {V1Datasource}]
MCNewV2Specs ==
    [Perses |-> {Bare}, PersesDashboard |-> {[config |-> "c1", instanceSelector |-> Nil]},
     PersesDatasource |-> {V2Datasource}]
MCV1Edits ==
    [Perses |-> V1PersesEdits, PersesDashboard |-> {<<"config", "c2">>},
     PersesDatasource |-> V1DatasourceEdits]
MCV2Edits ==
    [Perses |-> V2PersesEdits,
     PersesDashboard |-> {<<"config", "c3">>, <<"instanceSelector", Pointer("s")>>},
     PersesDatasource |-> {<<"instanceSelector", Pointer("s")>>}
                          \cup {<<"client", Pointer(Client_To_v1alpha2(c))>> : c \in V1Clients}]
=============================================================================
