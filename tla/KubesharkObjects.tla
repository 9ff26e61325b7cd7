-------------------------- MODULE KubesharkObjects --------------------------
(***************************************************************************)
(* What one reconcile pass asks for: the order of its steps, the object    *)
(* each step addresses, and the content its mutate function renders from   *)
(* the spec (hub.go, rbac.go, worker.go, frontend.go, secret.go).          *)
(*                                                                         *)
(* A managed object is [owner, data, class, roleRef, defaulted]: its       *)
(* controller reference, what the mutate function overwrites on every      *)
(* pass, the two fields that it treats otherwise (the ingress class, left  *)
(* as it is when the spec names none, and the role a binding refers to,    *)
(* which the API server never lets change), and whether the API server has *)
(* filled in what the mutate function leaves open.  Constant parts of the  *)
(* rendered manifests (commands, probes, volumes, environment) are left    *)
(* out of data: they are the same for every spec, so no step can ever      *)
(* disagree about them.                                                    *)
(***************************************************************************)
EXTENDS KubesharkNames

CONSTANTS Nobody,   \* the controller reference of an object that has none
          EmptyMap  \* a map or struct that is written in the spec, but empty

\* The order in which Reconcile runs the object-level functions of its steps
\* hub, rbac, worker, frontend and secret.
ReconcileOrder ==
    << "hubConfigMap", "hubServiceAccount", "hubDeployment", "hubService",
       "workerServiceAccount", "clusterRole", "clusterRoleBinding",
       "workerDaemonSet",
       "frontendDeployment", "frontendService", "frontendIngress",
       "secret" >>

\* The order in which reconcileDelete removes what owner references cannot.
CleanupOrder == << "clusterRole", "clusterRoleBinding" >>

ClusterSteps == { "clusterRole", "clusterRoleBinding" }

\* The kinds of the objects, file by file.
HubKinds == [hubConfigMap |-> "ConfigMap", hubServiceAccount |-> "ServiceAccount",
             hubDeployment |-> "Deployment", hubService |-> "Service"]
RBACKinds == [workerServiceAccount |-> "ServiceAccount", clusterRole |-> "ClusterRole",
              clusterRoleBinding |-> "ClusterRoleBinding"]
WorkerKinds == [workerDaemonSet |-> "DaemonSet"]
FrontendKinds == [frontendDeployment |-> "Deployment", frontendService |-> "Service",
                  frontendIngress |-> "Ingress"]
SecretKinds == [secret |-> "Secret"]

KindOf(step) ==
    CASE step \in DOMAIN HubKinds -> HubKinds[step]
      [] step \in DOMAIN RBACKinds -> RBACKinds[step]
      [] step \in DOMAIN WorkerKinds -> WorkerKinds[step]
      [] step \in DOMAIN FrontendKinds -> FrontendKinds[step]
      [] step \in DOMAIN SecretKinds -> SecretKinds[step]

NameOf(step, c, spec) ==
    CASE step = "hubConfigMap" -> HubConfigMapName(c, spec)
      [] step = "hubServiceAccount" -> HubServiceAccountName(c, spec)
      [] step = "hubDeployment" -> HubDeploymentName(c, spec)
      [] step = "hubService" -> HubServiceName(c, spec)
      [] step = "workerServiceAccount" -> WorkerServiceAccountName(c, spec)
      [] step = "clusterRole" -> ClusterRoleName(c, spec)
      [] step = "clusterRoleBinding" -> ClusterRoleBindingName(c, spec)
      [] step = "workerDaemonSet" -> WorkerDaemonSetName(c, spec)
      [] step = "frontendDeployment" -> FrontendDeploymentName(c)
      [] step = "frontendService" -> FrontendServiceName(c)
      [] step = "frontendIngress" -> FrontendIngressName(c, spec)
      [] step = "secret" -> KubesharkSecretName(c)

\* The identity of the object a step addresses.
Key(step, c, spec) ==
    [kind      |-> KindOf(step),
     namespace |-> IF step \in ClusterSteps THEN << >> ELSE c.namespace,
     name      |-> NameOf(step, c, spec)]

\* SetupWithManager: the kinds whose events wake the owner's reconcile.
WatchedKinds == { "Deployment", "DaemonSet", "Service", "ConfigMap", "Secret",
                  "ServiceAccount", "Ingress" }

\* componentLabels: name and managed-by are constant, the instance is not.
ComponentLabels(c) == [instance |-> c.name]

(***************************************************************************)
(* The content rendered by each mutate function.                           *)
(***************************************************************************)
HubConfigMapData(c, spec) ==
    [labels |-> ComponentLabels(c),
     data   |-> GetOrDefault(spec.hubConfigMapData, "defaultHubConfigMapData")]

ServiceAccountData(c) == [labels |-> ComponentLabels(c)]

HubDeploymentData(c, spec) ==
    [labels         |-> ComponentLabels(c),
     selector       |-> ComponentLabels(c),
     replicas       |-> GetOrDefault(spec.hubReplicas, 1),
     ports          |-> IF spec.hubContainerPorts \in {Unset, EmptyMap}
                        THEN {8080} ELSE spec.hubContainerPorts,
     serviceAccount |-> HubServiceAccountName(c, spec),
     image          |-> GetOrDefault(spec.hubImage, "hub:v52.3.82")]

HubServiceData(c) ==
    [labels |-> ComponentLabels(c), selector |-> ComponentLabels(c),
     port |-> 80, targetPort |-> 8080]

\* Mutant: only rules that are not written at all get the default.
ClusterRoleDataOrEmpty(c, spec) ==
    [labels |-> ComponentLabels(c),
     rules  |-> GetOrDefault(spec.clusterRoleRules, "defaultClusterRoleRules")]

ClusterRoleData(c, spec) ==
    [labels |-> ComponentLabels(c),
     rules  |-> IF spec.clusterRoleRules \in {Unset, EmptyMap}
                THEN "defaultClusterRoleRules" ELSE spec.clusterRoleRules]

ClusterRoleBindingData(c, spec) ==
    [labels   |-> ComponentLabels(c),
     subjects |-> { [name |-> HubServiceAccountName(c, spec),
                     namespace |-> c.namespace],
                    [name |-> WorkerServiceAccountName(c, spec),
                     namespace |-> c.namespace] }]

WorkerDaemonSetData(c, spec) ==
    [labels         |-> ComponentLabels(c),
     selector       |-> ComponentLabels(c),
     serviceAccount |-> WorkerServiceAccountName(c, spec),
     image          |-> GetOrDefault(spec.workerImage, "worker:v52.3.82")]

FrontendDeploymentData(c, spec) ==
    [labels   |-> ComponentLabels(c),
     selector |-> ComponentLabels(c),
     replicas |-> 1,
     image    |-> GetOrDefault(spec.frontendImage, "front:v52.3.82")]

FrontendServiceData(c) ==
    [labels |-> ComponentLabels(c), selector |-> ComponentLabels(c),
     type |-> "ClusterIP", port |-> 80, targetPort |-> 8080]

FrontendIngressData(c, spec) ==
    [labels |-> ComponentLabels(c), host |-> spec.ingressHost,
     backend |-> FrontendServiceName(c), port |-> 80]

\* The four StringData keys come from one block of the spec; unset values
\* fall back to constants, so an absent block and an empty one are alike.
SecretData(c, spec) ==
    [labels     |-> ComponentLabels(c),
     stringData |-> IF spec.secretKubeshark \in {Unset, EmptyMap}
                    THEN "defaults" ELSE spec.secretKubeshark]

DataOf(step, c, spec) ==
    CASE step = "hubConfigMap" -> HubConfigMapData(c, spec)
      [] step \in {"hubServiceAccount", "workerServiceAccount"} -> ServiceAccountData(c)
      [] step = "hubDeployment" -> HubDeploymentData(c, spec)
      [] step = "hubService" -> HubServiceData(c)
      [] step = "clusterRole" -> ClusterRoleData(c, spec)
      [] step = "clusterRoleBinding" -> ClusterRoleBindingData(c, spec)
      [] step = "workerDaemonSet" -> WorkerDaemonSetData(c, spec)
      [] step = "frontendDeployment" -> FrontendDeploymentData(c, spec)
      [] step = "frontendService" -> FrontendServiceData(c)
      [] step = "frontendIngress" -> FrontendIngressData(c, spec)
      [] step = "secret" -> SecretData(c, spec)

RoleRefOf(step, c, spec) ==
    IF step = "clusterRoleBinding" THEN ClusterRoleName(c, spec) ELSE Unset

\* Mutant: SetControllerReference is forgotten.
OwnerOfForgotten(step, c, uid) == Nobody

\* The controller reference: reconcileClusterRole and
\* reconcileClusterRoleBinding set none.
OwnerOf(step, c, uid) ==
    IF step \in ClusterSteps THEN Nobody ELSE [cr |-> c, uid |-> uid]

\* What the mutate function makes of an object whose ingress class is `class'
\* (Unset when the object is about to be created).  It replaces templates and
\* ports as a whole, and with them what the API server had filled in there.
Mutated(step, c, uid, spec, class) ==
    [owner     |-> OwnerOf(step, c, uid),
     data      |-> DataOf(step, c, spec),
     class     |-> IF step = "frontendIngress" /\ spec.ingressClassName # Unset
                   THEN spec.ingressClassName ELSE class,
     roleRef   |-> RoleRefOf(step, c, spec),
     defaulted |-> FALSE]

\* The kinds in which the mutate functions leave open what the API server
\* fills in: defaults of pod templates and of ports, and the data of a Secret,
\* which it makes of the stringData that it never returns.
DefaultedKinds == { "Deployment", "DaemonSet", "Service", "Secret" }

\* What the API server stores when it is sent obj, in a Create or an Update.
Completed(step, obj) ==
    [obj EXCEPT !.defaulted = KindOf(step) \in DefaultedKinds]

\* Mutant: the object is taken, whoever controls it.
ControllableAlways(step, c, obj) == TRUE

\* SetControllerReference refuses an object controlled by another resource;
\* it compares the owner's kind and name, not its uid.
Controllable(step, c, obj) ==
    (step \notin ClusterSteps /\ obj.owner # Nobody) => obj.owner.cr = c

(***************************************************************************)
(* The spec on its way through the API server.                             *)
(***************************************************************************)
\* The fields of a spec that the controller reads.
SpecFields ==
    { "hubServiceName", "hubDeploymentName", "hubConfigMapName",
      "workerDaemonSetName", "ingressName", "serviceAccountHub",
      "serviceAccountWorker", "clusterRoleName", "clusterRoleBindingName",
      "hubConfigMapData", "hubReplicas", "hubContainerPorts", "hubImage",
      "clusterRoleRules", "workerImage", "frontendImage", "ingressHost",
      "ingressClassName", "secretKubeshark" }

\* The schema's default, applied when a resource is created or edited.
Admitted(spec) == [spec EXCEPT !.hubReplicas = GetOrDefault(@, 1)]

\* The spec as an Update of the typed resource writes it: an empty map is
\* omitted, the secretKubeshark struct is always written.
Written(spec) ==
    [spec EXCEPT !.hubConfigMapData = IF @ = EmptyMap THEN Unset ELSE @,
                 !.clusterRoleRules = IF @ = EmptyMap THEN Unset ELSE @,
                 !.hubContainerPorts = IF @ = EmptyMap THEN Unset ELSE @,
                 !.secretKubeshark  = IF @ = Unset THEN EmptyMap ELSE @]
=============================================================================
