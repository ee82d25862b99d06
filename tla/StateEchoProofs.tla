--------------------------- MODULE StateEchoProofs ---------------------------
(***************************************************************************)
(* How far the states of updates may grow before StateEcho's properties    *)
(* fail, for any number of enumerators.                                    *)
(***************************************************************************)
EXTENDS StateEcho, TLAPS

\* The cast keeps exactly the values a char holds.
LEMMA CastKeeps ==
  ASSUME NEW state \in Int
  PROVE  /\ ECast(state) \in Char
         /\ ECast(state) = state <=> state \in Char
<1> DEFINE m == (state + 128) % 256
<1>1. m \in 0..255
  OBVIOUS
<1>2. state \in Char => m = state + 128
  BY DEF Char
<1> QED BY <1>1, <1>2 DEF ECast, Char

\* The cast takes the values just past a char's to the negative ones.
LEMMA CastWraps ==
  ASSUME NEW state \in 128..255
  PROVE  ECast(state) = state - 256
BY DEF ECast

Cast ==
  /\ item_state \in Sent
  /\ shown \subseteq {ECast(item_state)}
  /\ confirmed \subseteq {ECast(item_state)}

\* The application and the engine see one cast of one state.
LEMMA CastOnly ==
  Spec => []Cast
<1>1. Init => Cast
  BY DEF Init, Cast
<1>2. Cast /\ [Next]_vars => Cast'
  BY DEF Cast, Next, vars, OnCallback, SendConfirm, ReadNext
<1> QED BY <1>1, <1>2, PTL DEF Spec

\* Every variable keeps its type, whatever the engine sends.
THEOREM TypeCorrect ==
  ASSUME Sent \subseteq Int
  PROVE  Spec => []TypeOK
<1>1. Cast => TypeOK
  BY CastKeeps DEF Cast, TypeOK
<1> QED BY <1>1, CastOnly, PTL

\* Confirmations are faithful as long as the states sent fit a char.
THEOREM EchoIsFaithful ==
  ASSUME Sent \subseteq Char
  PROVE  Spec => []ConfirmEchoes
<1>1. Cast => ConfirmEchoes
  BY CastKeeps DEF Cast, ConfirmEchoes, Char
<1> QED BY <1>1, CastOnly, PTL

\* A new state is not taken for a known one as long as it is below 256.
THEOREM KnownIsFaithful ==
  ASSUME Sent \subseteq -128..255, LastKnown \in 0..127
  PROVE  Spec => []KnownMeansSent
<1>1. ASSUME NEW state \in -128..255, ECast(state) \in 0..LastKnown
      PROVE  ECast(state) = state
  <2>1. CASE state \in Char
    BY <2>1, CastKeeps
  <2>2. CASE state \in 128..255
    BY <1>1, <2>2, CastWraps
  <2> QED BY <2>1, <2>2 DEF Char
<1>2. Cast => KnownMeansSent
  BY <1>1 DEF Cast, KnownMeansSent
<1> QED BY <1>2, CastOnly, PTL

=============================================================================
