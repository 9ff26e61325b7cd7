--------------------------- MODULE KubesharkNames ---------------------------
(***************************************************************************)
(* The names the operator gives to the objects it manages, translated from *)
(* internal/controller/helpers.go.                                         *)
(*                                                                         *)
(* A Kubernetes name is the sequence of its dash-separated segments, so    *)
(* that joining two names with "-" is \o: "a-b" is <<"a", "b">> and the    *)
(* default hub name of the resource "ks" is <<"ks", "hub">>.  A custom     *)
(* resource is identified by c = [namespace |-> name, name |-> name].  The *)
(* optional fields of the resource's spec hold Unset when the Go field is  *)
(* its zero value (the empty string, a nil pointer, a nil map).            *)
(***************************************************************************)
EXTENDS Sequences

CONSTANT Unset

GetOrDefault(value, default) == IF value = Unset THEN default ELSE value

HubServiceName(c, spec)    == GetOrDefault(spec.hubServiceName, Append(c.name, "hub"))
HubDeploymentName(c, spec) == GetOrDefault(spec.hubDeploymentName, Append(c.name, "hub"))
HubConfigMapName(c, spec)  == GetOrDefault(spec.hubConfigMapName, Append(c.name, "config"))

WorkerDaemonSetName(c, spec) ==
    GetOrDefault(spec.workerDaemonSetName, Append(c.name, "worker"))

\* Mutant: the frontend's Deployment is named like the hub's.
FrontendDeploymentNamedHub(c) == Append(c.name, "hub")

FrontendServiceName(c)    == Append(c.name, "frontend")
FrontendDeploymentName(c) == Append(c.name, "frontend")

FrontendIngressName(c, spec) ==
    GetOrDefault(spec.ingressName, c.name \o <<"frontend", "ingress">>)

KubesharkSecretName(c) == Append(c.name, "secret")

HubServiceAccountName(c, spec) ==
    GetOrDefault(spec.serviceAccountHub, Append(c.name, "hub"))

WorkerServiceAccountName(c, spec) ==
    GetOrDefault(spec.serviceAccountWorker, Append(c.name, "worker"))

\* Mutant: the default name tells namespaces apart, but not resources.
ClusterRoleNameOfNamespace(c, spec) ==
    GetOrDefault(spec.clusterRoleName, c.namespace \o <<"kubeshark">>)

\* The two cluster-scoped objects carry the namespace in their default name.
ClusterRoleName(c, spec) ==
    GetOrDefault(spec.clusterRoleName, c.namespace \o c.name \o <<"kubeshark">>)

ClusterRoleBindingName(c, spec) ==
    GetOrDefault(spec.clusterRoleBindingName,
                 c.namespace \o c.name \o <<"kubeshark">>)
=============================================================================
