---------------------------- MODULE GatewayCerts ----------------------------
(***************************************************************************)
(* The certificates that the gateway operator asks for                     *)
(* (pkg/sdk/resources/gateway/certs.go) and what cert-manager, which is    *)
(* external, makes of them: the secret of a certificate is issued once its *)
(* issuer can sign, and the pods of the gateway wait for the secrets that  *)
(* they mount.                                                             *)
(***************************************************************************)
EXTENDS GatewayOperator

\* The issuer of every certificate.
IssuerOf == [
    gatewayCA            |-> "selfsignedIssuer",
    gatewayServingCert   |-> "gatewayCAIssuer",
    cortexIntermediateCA |-> "gatewayCAIssuer",
    cortexClientCA       |-> "cortexIntermediateCAIssuer",
    cortexClientCert     |-> "cortexClientCAIssuer",
    cortexServingCert    |-> "cortexIntermediateCAIssuer",
    etcdIntermediateCA   |-> "gatewayCAIssuer",
    etcdClientCert       |-> "etcdIntermediateCAIssuer",
    etcdServingCert      |-> "etcdIntermediateCAIssuer"]

\* The secret that a certificate is stored in.
SecretOf == [
    gatewayCA            |-> "opni-gateway-ca-keys",
    gatewayServingCert   |-> "opni-gateway-serving-cert",
    cortexIntermediateCA |-> "cortex-intermediate-ca-keys",
    cortexClientCA       |-> "cortex-client-ca-keys",
    cortexClientCert     |-> "cortex-client-cert-keys",
    cortexServingCert    |-> "cortex-serving-cert-keys",
    etcdIntermediateCA   |-> "etcd-intermediate-ca-keys",
    etcdClientCert       |-> "etcd-client-cert-keys",
    etcdServingCert      |-> "etcd-serving-cert-keys"]

\* Mutant: the issuer of the cortex client certificates reads a secret that no
\* certificate is stored in.
MisspeltSecret == [
    gatewayCAIssuer            |-> "opni-gateway-ca-keys",
    cortexIntermediateCAIssuer |-> "cortex-intermediate-ca-keys",
    cortexClientCAIssuer       |-> "cortex-client-ca",
    etcdIntermediateCAIssuer   |-> "etcd-intermediate-ca-keys"]

\* The secret an issuer signs with. The self-signed issuer has none.
SigningSecret == [
    gatewayCAIssuer            |-> "opni-gateway-ca-keys",
    cortexIntermediateCAIssuer |-> "cortex-intermediate-ca-keys",
    cortexClientCAIssuer       |-> "cortex-client-ca-keys",
    etcdIntermediateCAIssuer   |-> "etcd-intermediate-ca-keys"]

\* The secrets that the pods of the deployment mount.
Mounts == {"opni-gateway-serving-cert", "cortex-client-cert-keys", "cortex-serving-cert-keys",
           "etcd-client-cert-keys", "etcd-serving-cert-keys"}

-----------------------------------------------------------------------------
VARIABLE secrets  \* that cert-manager has issued

certVars == <<vars, secrets>>

CertsInit == Init /\ secrets = {}

\* A certificate whose issuer can sign, and that is not issued yet.
Issuable(c) ==
    /\ obj[c] # None /\ obj[IssuerOf[c]] # None
    /\ IssuerOf[c] \in DOMAIN SigningSecret => SigningSecret[IssuerOf[c]] \in secrets
    /\ SecretOf[c] \notin secrets

\* One pass of cert-manager.
Issue ==
    LET ready == {c \in DOMAIN IssuerOf : Issuable(c)} IN
    /\ ready # {}
    /\ secrets' = secrets \cup {SecretOf[c] : c \in ready}
    /\ UNCHANGED vars

CertsNext == (Next /\ UNCHANGED secrets) \/ Issue

CertsSpec == CertsInit /\ [][CertsNext]_certVars

\* The cache follows the API server, the controller works off its queue, the garbage
\* collector runs, and cert-manager issues what it can.
FairCertsSpec ==
    /\ CertsSpec
    /\ WF_certVars(Watch /\ UNCHANGED secrets)
    /\ WF_certVars((Reconcile \/ CollectGarbage) /\ UNCHANGED secrets)
    /\ WF_certVars(Issue)

-----------------------------------------------------------------------------
(* Properties *)

\* The pods of the deployment can start: every secret they mount is issued, along the
\* chain of certificates from the self-signed issuer, unless someone deletes an object
\* that the controller does not put back.
PodsCanStart ==
    [](gateway # None /\ Builds(gateway)
         => <>(\/ gateway = None \/ ~Builds(gateway)
               \/ Mounts \subseteq secrets
               \/ "selfsignedIssuer" \in missing))
=============================================================================
