-------------------------- MODULE ProviderProtocol --------------------------
(***************************************************************************)
(* The provider protocol: the messages of one connection (ProviderLink) and the    *)
(* bytes that carry them (ProtocolCodec).                                      *)
(***************************************************************************)
EXTENDS ProviderLink, ProtocolCodec

(* Messages between the host and a provider arrive as they were sent, each request    *)
(* is answered once, and both sides agree on which are outstanding, but for responses   *)
(* that cross a cancel (ProviderProtocolCodec, ProviderProcessSupervisor, the SDK).      *)
ProtocolKept == DecodedAsSent /\ ResponsesAreExpected /\ SlotsSuffice
=============================================================================
