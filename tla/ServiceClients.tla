--------------------------- MODULE ServiceClients ---------------------------
(***************************************************************************)
(* The requests of the five service clients (ivi-client.cpp) and the model *)
(* codecs they go through (ivi-model.cpp): from the arguments an           *)
(* application gives, through the request message and the engine, to the   *)
(* payload its callback is given.                                          *)
(*                                                                         *)
(* Requests are in flight together, the engine executes them in any order  *)
(* and the answers come back in any order (UnaryPoll says how).  Of the    *)
(* data a request carries, kept are the things it names and the JSON it    *)
(* gives them: the engine must be told, and the application must read      *)
(* back, the same JSON of the same things.  The engine is external: it     *)
(* keeps one JSON field for each thing it knows.                           *)
(***************************************************************************)
EXTENDS Naturals, Sequences, FiniteSets, SequencesExt, JsonStruct

CONSTANTS
  Requests,     \* the calls an application makes
  Items, ItemTypes, Players, Orders,
  NewOrder,     \* the order a request asks for, which the engine will name
  Existing,     \* items and types the engine knows from earlier sessions
  Malformed,    \* a text that is no JSON object
  Unknown,      \* the engine does not know this thing
  MaxList,      \* bound: the longest list that is given to a request
  MaxPurchased, \* bound: the most purchased items of a new order
  None

Things == Items \cup ItemTypes \cup Players \cup Orders

ASSUME ThingsAssumption ==
  /\ Malformed \notin Texts \cup {NoText}
  /\ Unknown \notin Objects \cup {Absent}
  /\ Existing \subseteq Items \cup ItemTypes
  /\ {NewOrder, None} \cap Things = {}
  /\ IsFiniteSet(Things)
  /\ Items \cap ItemTypes = {} /\ (Items \cup ItemTypes) \cap (Players \cup Orders) = {}
  /\ Players \cap Orders = {}
  /\ MaxList \in Nat /\ MaxPurchased \in Nat

VARIABLES
  asked,     \* what the application asked: the rpc, the things, their texts
  request,   \* the message that was sent
  parser,    \* the response parser bound to the call
  answer,    \* the engine's answer on its way back
  result,    \* what the callback was given
  stored,    \* the engine: the JSON field of a thing
  written,   \* history: the text the application gave for that field
  saw,       \* history: those texts when the engine answered the request
  exited     \* IVI_CHECK or IVI_EXIT_FAILURE ended the program

callVars == <<asked, request, parser>>
engineVars == <<stored, written, saw>>
vars == <<callVars, answer, result, engineVars, exited>>

Given == Texts \cup {NoText, Malformed}
Fields == Objects \cup {Absent}

\* The requests that carry JSON to the engine
Carries == {"IssueItem", "UpdateItemMetadata", "CreateItemType",
            "UpdateItemTypeMetadata", "CreateOrder"}

Payloads == Seq([thing : Things, text : Texts \cup {NoText}])

TypeOK ==
  /\ \A r \in Requests :
       /\ request[r] # None =>
            \A k \in DOMAIN request[r].entries :
              request[r].entries[k] \in [thing : Things \cup {NewOrder}, field : Fields]
       /\ result[r] # None => result[r].ok \in BOOLEAN /\ result[r].entries \in Payloads
  /\ stored \in [Things -> Fields \cup {Unknown}]
  /\ exited \in BOOLEAN

-----------------------------------------------------------------------------
(* The codecs of ivi-model.cpp.                                            *)

\* No metadata of an order is not the metadata {}
OrderToProto(text) == IF text = NoText THEN Absent ELSE JsonStringToGoogleStruct(text)

OrderFromProto(field) == IF field = Absent THEN NoText ELSE GoogleStructToJsonString(field)

ToProto(thing, text) ==
  IF thing = NewOrder THEN OrderToProto(text) ELSE JsonStringToGoogleStruct(text)

FromProto(thing, field) ==
  CASE thing \in Orders -> OrderFromProto(field)
    [] thing \in Players -> NoText
    [] OTHER -> GoogleStructToJsonString(field)

-----------------------------------------------------------------------------
(* Making a call: the message is made from the arguments, and IVI_CHECK    *)
(* ends the program where they do not convert; the parser is bound, and    *)
(* the call is submitted.                                                  *)

Entry(thing, text) == [thing |-> thing, text |-> text]

MakeRequest(rpc, entries) ==
  [rpc |-> rpc,
   entries |->
     [k \in DOMAIN entries |->
       [thing |-> entries[k].thing,
        field |-> IF rpc \in Carries THEN ToProto(entries[k].thing, entries[k].text)
                                     ELSE Absent]]]

\* What the application asked is remembered beside what was sent for it
Submit(r, intent, entries, kind, thing) ==
  /\ request' = [request EXCEPT ![r] = MakeRequest(intent.rpc, entries)]
  /\ parser' = [parser EXCEPT ![r] = [kind |-> kind, thing |-> thing]]
  /\ asked' = [asked EXCEPT ![r] = intent]
  /\ UNCHANGED exited

Call(r, intent, entries, kind, thing) ==
  /\ ~exited
  /\ request[r] = None
  /\ IF \E k \in DOMAIN entries : entries[k].text = Malformed
     THEN exited' = TRUE /\ UNCHANGED callVars
     ELSE Submit(r, intent, entries, kind, thing)
  /\ UNCHANGED <<answer, result, engineVars>>

Ask(r, rpc, entries, kind, thing) ==
  Call(r, [rpc |-> rpc, entries |-> entries], entries, kind, thing)

\* Mutant: the parser is made without the id of the request
ChangeUnbound(r, rpc, thing, text) == Ask(r, rpc, <<Entry(thing, text)>>, "echo", None)

\* The answer to a change does not name the thing: its parser is given the id
Change(r, rpc, thing, text) == Ask(r, rpc, <<Entry(thing, text)>>, "echo", thing)

IssueItem(r) == \E i \in Items, t \in Given : Change(r, "IssueItem", i, t)
TransferItem(r) == \E i \in Items : Change(r, "TransferItem", i, NoText)
BurnItem(r) == \E i \in Items : Change(r, "BurnItem", i, NoText)
FreezeItemType(r) == \E i \in ItemTypes : Change(r, "FreezeItemType", i, NoText)
LinkPlayer(r) == \E p \in Players : Change(r, "LinkPlayer", p, NoText)

GetItem(r) == \E i \in Items : Ask(r, "GetItem", <<Entry(i, NoText)>>, "read", None)
GetItems(r) == Ask(r, "GetItems", <<>>, "read", None)
GetPlayer(r) == \E p \in Players : Ask(r, "GetPlayer", <<Entry(p, NoText)>>, "read", None)
GetPlayers(r) == Ask(r, "GetPlayers", <<>>, "read", None)
GetOrder(r) == \E o \in Orders : Ask(r, "GetOrder", <<Entry(o, NoText)>>, "read", None)

\* A list of no ids asks for every type
GetItemTypes(r) ==
  \E n \in 0..MaxList : \E ids \in [1..n -> [thing : ItemTypes, text : {NoText}]] :
    Ask(r, "GetItemTypes", ids, "read", None)

\* Mutant: the list is left empty
GetItemTypeOfNone(r) ==
  \E i \in ItemTypes :
    Call(r, [rpc |-> "GetItemTypes", entries |-> <<Entry(i, NoText)>>], <<>>, "first", None)

\* One type is asked for as a list of one
GetItemType(r) ==
  \E i \in ItemTypes : Ask(r, "GetItemTypes", <<Entry(i, NoText)>>, "first", None)

CreateItemType(r) ==
  \E i \in ItemTypes, t \in Given : Ask(r, "CreateItemType", <<Entry(i, t)>>, "named", None)

\* The order's own metadata, then that of each purchased item, by its type
CreatePrimaryOrder(r) ==
  \E t \in Given, n \in 0..MaxPurchased :
    \E purchased \in [1..n -> [thing : ItemTypes, text : Given]] :
      Ask(r, "CreateOrder", <<Entry(NewOrder, t)>> \o purchased, "read", None)

\* Mutant: of a list of updates the last one is sent
UpdateItemMetadataLast(r, updates) ==
  Call(r, [rpc |-> "UpdateItemMetadata", entries |-> updates],
       IF updates = <<>> THEN <<>> ELSE <<Last(updates)>>, "none", None)

\* One update, or a list of them, is one message
MakeUpdateItemMetadata(r, updates) == Ask(r, "UpdateItemMetadata", updates, "none", None)

UpdateItemMetadata(r) ==
  \E n \in 0..MaxList : \E updates \in [1..n -> [thing : Items, text : Given]] :
    MakeUpdateItemMetadata(r, updates)

UpdateItemTypeMetadata(r) ==
  \E i \in ItemTypes, t \in Given :
    Ask(r, "UpdateItemTypeMetadata", <<Entry(i, t)>>, "none", None)

\* With either provider; the answer names nothing
FinalizeOrder(r) == \E o \in Orders : Ask(r, "FinalizeOrder", <<Entry(o, NoText)>>, "none", None)

\* IVI_CHECK(id == PaymentProviderId::BRAINTREE)
GetToken(r) ==
  \E id \in {"BRAINTREE", "BITPAY"} :
    IF id = "BRAINTREE" THEN Ask(r, "GetToken", <<>>, "token", None)
    ELSE /\ ~exited /\ request[r] = None
         /\ exited' = TRUE
         /\ UNCHANGED <<callVars, answer, result, engineVars>>

-----------------------------------------------------------------------------
(* The engine.                                                             *)

Known(ids) == {i \in ids : stored[i] # Unknown}

InFlight(r) == request[r] # None /\ answer[r] = None

\* A read answers with what is stored of the things it names
Reads(r, things) ==
  /\ answer' = [answer EXCEPT ![r] =
       [ok |-> TRUE, entries |-> [k \in DOMAIN things |->
                                   [thing |-> things[k], field |-> stored'[things[k]]]]]]
  /\ saw' = [saw EXCEPT ![r] = [k \in DOMAIN things |-> written'[things[k]]]]

\* The things that the entries of a list name, in their order
Named(entries) == [k \in DOMAIN entries |-> entries[k].thing]

\* The last place of a thing in a list
LastOf(things, i) ==
  CHOOSE k \in DOMAIN things :
    things[k] = i /\ \A j \in DOMAIN things : things[j] = i => j <= k

\* The fields of a message are stored, the later entry over the earlier
Writes(r) ==
  LET sent == Named(request[r].entries)
      said == Named(asked[r].entries)
  IN  /\ stored' = [i \in Things |-> IF i \in ToSet(sent)
                                     THEN request[r].entries[LastOf(sent, i)].field
                                     ELSE stored[i]]
      /\ written' = [i \in Things |-> IF i \in ToSet(said)
                                      THEN asked[r].entries[LastOf(said, i)].text
                                      ELSE written[i]]

\* The engine executes a request it accepts
Execute(r) ==
  /\ InFlight(r)
  /\ LET m == request[r]
         ids == Named(m.entries)
     IN  \/ /\ m.rpc \in {"IssueItem", "CreateItemType"}
            /\ Writes(r)
            /\ Reads(r, IF m.rpc = "CreateItemType" THEN ids ELSE <<>>)
         \/ /\ m.rpc \in {"UpdateItemMetadata", "UpdateItemTypeMetadata"}
            /\ \A k \in DOMAIN ids : stored[ids[k]] # Unknown
            /\ Writes(r)
            /\ Reads(r, <<>>)
         \/ /\ m.rpc = "LinkPlayer"
            /\ stored' = [stored EXCEPT ![ids[1]] = Absent]
            /\ UNCHANGED written
            /\ Reads(r, <<>>)
         \/ /\ m.rpc = "CreateOrder"    \* an order's answer has no purchased items
            /\ \E o \in Orders \ Known(Orders) :
                 /\ stored' = [stored EXCEPT ![o] = m.entries[1].field]
                 /\ written' = [written EXCEPT ![o] = asked[r].entries[1].text]
                 /\ Reads(r, <<o>>)
         \/ /\ m.rpc \in {"TransferItem", "BurnItem", "FreezeItemType", "FinalizeOrder", "GetToken"}
            /\ UNCHANGED <<stored, written>>
            /\ Reads(r, <<>>)
         \/ /\ m.rpc \in {"GetItem", "GetPlayer", "GetOrder"}
            /\ stored[ids[1]] # Unknown
            /\ UNCHANGED <<stored, written>>
            /\ Reads(r, ids)
         \/ /\ m.rpc \in {"GetItems", "GetPlayers"}
            /\ UNCHANGED <<stored, written>>
            /\ \E page \in SUBSET Known(IF m.rpc = "GetItems" THEN Items ELSE Players) :
                 Reads(r, SetToSeq(page))
         \/ /\ m.rpc = "GetItemTypes"
            /\ UNCHANGED <<stored, written>>
            /\ Reads(r, SetToSeq(Known(IF ids = <<>> THEN ItemTypes ELSE ToSet(ids))))
  /\ UNCHANGED <<callVars, result, exited>>

\* A call fails, before the engine executes it
Refuse(r) ==
  /\ InFlight(r)
  /\ answer' = [answer EXCEPT ![r] = [ok |-> FALSE, entries |-> <<>>]]
  /\ UNCHANGED <<callVars, result, engineVars, exited>>

\* ... or after, when its answer is lost
LoseAnswer(r) ==
  /\ request[r] # None /\ answer[r] # None /\ answer[r].ok
  /\ result[r] = None
  /\ answer' = [answer EXCEPT ![r] = [ok |-> FALSE, entries |-> <<>>]]
  /\ UNCHANGED <<callVars, result, engineVars, exited>>

-----------------------------------------------------------------------------
(* The answer, through the call's parser, to the callback.                 *)

Parsed(kind, thing, entries) ==
  LET payload == [k \in DOMAIN entries |->
                   Entry(entries[k].thing, FromProto(entries[k].thing, entries[k].field))]
  IN  CASE kind = "echo" -> <<Entry(thing, NoText)>>
        [] kind = "named" -> <<Entry(entries[1].thing, NoText)>>
        [] kind = "read" -> payload
        [] kind = "first" -> SubSeq(payload, 1, 1)
        [] OTHER -> <<>>

Found(kind, entries) == kind = "first" => Len(entries) >= 1

Callback(r) ==
  /\ ~exited
  /\ answer[r] # None /\ result[r] = None
  /\ LET ok == answer[r].ok /\ Found(parser[r].kind, answer[r].entries)
     IN  result' = [result EXCEPT ![r] =
           [ok |-> ok,
            entries |-> IF ok THEN Parsed(parser[r].kind, parser[r].thing, answer[r].entries)
                              ELSE <<>>]]
  /\ UNCHANGED <<callVars, answer, engineVars, exited>>

\* IVIToken::FromProto: a token of another provider ends the program
UnsupportedToken(r) ==
  /\ ~exited
  /\ answer[r] # None /\ result[r] = None
  /\ answer[r].ok /\ parser[r].kind = "token"
  /\ exited' = TRUE
  /\ UNCHANGED <<callVars, answer, result, engineVars>>

-----------------------------------------------------------------------------
Init ==
  /\ asked = [r \in Requests |-> None]
  /\ request = [r \in Requests |-> None]
  /\ parser = [r \in Requests |-> None]
  /\ answer = [r \in Requests |-> None]
  /\ result = [r \in Requests |-> None]
  /\ stored = [i \in Things |-> IF i \in Existing THEN Absent ELSE Unknown]
  /\ written = [i \in Things |-> NoText]
  /\ saw = [r \in Requests |-> <<>>]
  /\ exited = FALSE

ItemClient(r) ==
  \/ IssueItem(r) \/ TransferItem(r) \/ BurnItem(r)
  \/ GetItem(r) \/ GetItems(r) \/ UpdateItemMetadata(r)

ItemTypeClient(r) ==
  \/ GetItemType(r) \/ GetItemTypes(r) \/ CreateItemType(r)
  \/ FreezeItemType(r) \/ UpdateItemTypeMetadata(r)

OtherClients(r) ==
  \/ LinkPlayer(r) \/ GetPlayer(r) \/ GetPlayers(r)
  \/ GetOrder(r) \/ CreatePrimaryOrder(r) \/ FinalizeOrder(r)
  \/ GetToken(r)

Engine(r) == Execute(r) \/ Refuse(r) \/ LoseAnswer(r)

Next ==
  \E r \in Requests :
    \/ ItemClient(r) \/ ItemTypeClient(r) \/ OtherClients(r)
    \/ Engine(r)
    \/ Callback(r) \/ UnsupportedToken(r)

Spec == Init /\ [][Next]_vars

-----------------------------------------------------------------------------
(* Properties.                                                             *)

Succeeded(r) == result[r] # None /\ result[r].ok

\* Whatever the order in which calls are executed and answered, a result
\* names the thing its own request named (the response parsers of
\* IssueItem ... LinkPlayer, which echo an id, GetItemType, which asks for a
\* list, and the others, which believe the answer).
ResultNamesRequest ==
  \A r \in Requests : Succeeded(r) =>
    LET named == ToSet(Named(asked[r].entries))
    IN  \A k \in DOMAIN result[r].entries :
          \/ result[r].entries[k].thing \in named
          \/ asked[r].rpc = "CreateOrder" /\ result[r].entries[k].thing \in Orders
          \/ asked[r].rpc \in {"GetItems", "GetItemTypes", "GetPlayers"} /\ named = {}

\* What a text reads as once the engine has it: the printed form of its
\* object; an empty text is the object {}, and for an order it is no text.
ReadsAs(thing, text) ==
  CASE text \in Texts -> Printed[Denotes[text]]
    [] text = NoText /\ thing \in Orders -> NoText
    [] OTHER -> Printed[EmptyObject]

\* What is read of a thing is what the application last wrote of it when the
\* engine answered: no request, single or list, and neither direction of the
\* codecs loses JSON, and an order without metadata reads back without
\* (MakeUpdateItemMetadataRequest, MakeCreateOrderRequest, FromProto/ToProto).
ReadsWhatWasWritten ==
  \A r \in Requests :
    Succeeded(r) /\ parser[r].kind \in {"read", "first"} =>
      \A k \in DOMAIN result[r].entries :
        LET e == result[r].entries[k]
        IN  e.thing \notin Players => e.text = ReadsAs(e.thing, saw[r][k])
=============================================================================
