------------------------------- MODULE MCParts -------------------------------
(***************************************************************************)
(* Five components that share no state, checked side by side in one run:   *)
(* a behaviour is one of the part that was chosen in its initial state.    *)
(***************************************************************************)
EXTENDS Template, Store, Metrics, Framing, KeepAlive

VARIABLE part

partsVars == <<part, tplVars, storeVars, metricsVars, frmVars, kaVars>>

PartsInit ==
  /\ part \in {"template", "store", "metrics", "framing", "keepalive"}
  /\ TplInit /\ StoreInit /\ MetricsInit /\ FramingInit /\ KeepAliveInit
  /\ part # "framing" => frmDecoder = "java"
  /\ part # "keepalive" => kaClient = "java"

PartsNext ==
  \/ /\ part = "template" /\ TplNext
     /\ UNCHANGED <<part, storeVars, metricsVars, frmVars, kaVars>>
  \/ /\ part = "store" /\ StoreNext
     /\ UNCHANGED <<part, tplVars, metricsVars, frmVars, kaVars>>
  \/ /\ part = "metrics" /\ MetricsNext
     /\ UNCHANGED <<part, tplVars, storeVars, frmVars, kaVars>>
  \/ /\ part = "framing" /\ FramingNext
     /\ UNCHANGED <<part, tplVars, storeVars, metricsVars, kaVars>>
  \/ /\ part = "keepalive" /\ KeepAliveNext
     /\ UNCHANGED <<part, tplVars, storeVars, metricsVars, frmVars>>

PartsSpec == PartsInit /\ [][PartsNext]_partsVars
------------------------------------------------------------------------------
(* Web pages: an escaped output, raw outputs between text, a row loop as   *)
(* in the lists, and one whose loop is not closed.                         *)
cTemplates == {
  <<"<%", "=", "name", "%>">>,
  <<"t", "<%", ":", "=", "name", "%>", "nl", "quote", "<%", "ws", "%>", "t">>,
  <<"ul", "cr", "<%", "each", "%>", "li", "<%", ":", "=", "name", "%>", "<%", "end", "%>",
    "ws", "nl">>,
  <<"<%", "each", "%>", "li">>}
cDatas == {[vars |-> "name" :> v, rows |-> <<>>] : v \in BoundedSeq({"<", "&", "quote", "amp;"}, 2)}
          \cup {[vars |-> <<>>, rows |-> <<("name" :> <<"&">>), <<>>>>]}

(* Configurations: one client, two clients, and one that uses a port twice. *)
Mapping(k, p, l) == [key |-> k, port |-> p, lan |-> l]
cDocuments == {<<Mapping("k1", 1, "a")>>,
               <<Mapping("k1", 2, "a"), Mapping("k2", 3, "b")>>,
               <<Mapping("k1", 1, "a"), Mapping("k2", 1, "b")>>}

(* Uris around 127, 253 and 256 bytes, and a message that is too long.     *)
cMessages == {[uri |-> m[1], data |-> m[2]] :
                m \in {<<0, 0>>, <<1, 2>>, <<127, 0>>, <<128, 0>>, <<254, 0>>, <<256, 1>>,
                       <<0, 270>>}}
------------------------------------------------------------------------------
(* The type invariants of the parts.                                       *)
PartsTypeOK == /\ TplTypeOK /\ StoreTypeOK /\ MetricsTypeOK
               /\ FramingTypeOK /\ KeepAliveTypeOK
==============================================================================
