--------------------------- MODULE MC_WebhookView ---------------------------
(***************************************************************************)
(* The instance of CallbackPipeline, together with the address its         *)
(* requests come from.                                                     *)
(***************************************************************************)
EXTENDS MC_CallbackPipeline, ClientIp, SequencesExt

CONSTANTS provider, edgeProxy, innerProxy, garbage, blank, malformed

\* Two networks and a typo; no network holds what is no address.
MC_Entry == {provider, edgeProxy, innerProxy, garbage, blank}

MC_TrustedProxies == {{edgeProxy}, {innerProxy}, malformed}

MC_Claims == SeqOf(MC_Entry, 2)

\* Straight to the server, or through one or both proxies.
MC_Routes == {<<>>, <<edgeProxy>>, <<edgeProxy, innerProxy>>}
=============================================================================
