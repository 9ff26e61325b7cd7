----------------------------- MODULE MCOperator -----------------------------
(***************************************************************************)
(* Small instances of the operator: resources, specs and plans for    *)
(* TLC to give to the constants.                                           *)
(***************************************************************************)
EXTENDS KubesharkOperator

KsInA == [namespace |-> <<"a">>, name |-> <<"ks">>]
KpInA == [namespace |-> <<"a">>, name |-> <<"kp">>]

OneCR  == { KsInA }
TwoCRs == { KsInA, KpInA }

\* The spec of a manifest that sets nothing.
Blank ==
    [hubServiceName |-> Unset, hubDeploymentName |-> Unset,
     hubConfigMapName |-> Unset, workerDaemonSetName |-> Unset,
     ingressName |-> Unset, serviceAccountHub |-> Unset,
     serviceAccountWorker |-> Unset, clusterRoleName |-> Unset,
     clusterRoleBindingName |-> Unset, hubConfigMapData |-> Unset,
     hubReplicas |-> Unset, hubContainerPorts |-> Unset, hubImage |-> Unset,
     clusterRoleRules |-> Unset, workerImage |-> Unset,
     frontendImage |-> Unset, ingressHost |-> "host",
     ingressClassName |-> Unset, secretKubeshark |-> Unset]

StoredSpecs(manifests) ==
    LET stored == { Admitted(spec) : spec \in manifests }
    IN  stored \cup { Written(spec) : spec \in stored }

\* A spec and a change that the config map, the hub deployment, the binding
\* and the secret show.
CoreManifests ==
    { Blank, [Blank EXCEPT !.hubConfigMapData = "custom", !.hubReplicas = 2,
                           !.serviceAccountHub = <<"sa">>,
                           !.secretKubeshark = "license"] }
CoreSpecs == StoredSpecs(CoreManifests)

\* A change of the config map's name, which leaves the earlier object behind,
\* and of its content, to one that an Update of the resource drops.
MovedManifests ==
    { Blank, [Blank EXCEPT !.hubConfigMapName = <<"cm">>,
                           !.hubConfigMapData = EmptyMap] }
MovedSpecs == StoredSpecs(MovedManifests)

\* A manifest that the operator's own writes leave as it is.
PlainManifests == { [Blank EXCEPT !.secretKubeshark = EmptyMap] }
PlainSpecs     == StoredSpecs(PlainManifests)

\* A manifest whose empty map the operator's first Update drops; the user's
\* edit is to apply it again.
EmptiedManifests ==
    { [Blank EXCEPT !.secretKubeshark = EmptyMap, !.hubConfigMapData = EmptyMap] }
EmptiedSpecs == StoredSpecs(EmptiedManifests)

\* A change of the names of the cluster-scoped objects.
RenameManifests == PlainManifests \cup
    { [Blank EXCEPT !.secretKubeshark = EmptyMap, !.clusterRoleName = <<"cr">>] }
RenameSpecs == StoredSpecs(RenameManifests)

\* The same with an empty list of rules, which an Update drops.
EmptyRulesManifests ==
    { [spec EXCEPT !.clusterRoleRules = EmptyMap] : spec \in RenameManifests }
EmptyRulesSpecs == StoredSpecs(EmptyRulesManifests)

\* Every resource asks for the same config map.
SharedManifests ==
    { [Blank EXCEPT !.secretKubeshark = EmptyMap, !.hubConfigMapName = <<"cm">>] }
SharedSpecs == StoredSpecs(SharedManifests)

HubPlan    == << "hubConfigMap", "hubDeployment" >>
RbacPlan   == << "clusterRole", "clusterRoleBinding" >>
RolePlan   == << "clusterRole" >>
ConfigPlan == << "hubConfigMap" >>
MixedPlan  == << "hubConfigMap", "clusterRole" >>

\* Every step whose object is watched.
WatchedPlan ==
    << "hubConfigMap", "hubServiceAccount", "hubDeployment", "hubService",
       "workerServiceAccount", "workerDaemonSet", "frontendDeployment",
       "frontendService", "frontendIngress", "secret" >>
=============================================================================
