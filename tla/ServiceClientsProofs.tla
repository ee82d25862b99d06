------------------------- MODULE ServiceClientsProofs -------------------------
(***************************************************************************)
(* What ServiceClients' run checks with two requests and a few things, for *)
(* any number of requests in flight, any things, any JSON and lists of any *)
(* length: a result belongs to its request, and what is read is what was   *)
(* written.                                                                *)
(***************************************************************************)
EXTENDS ServiceClients, FiniteSetTheorems, SequenceTheorems, TLAPS

-----------------------------------------------------------------------------
(* Lists.                                                                  *)

\* A set of natural numbers up to a bound has a greatest element.
LEMMA GreatestOf ==
  ASSUME NEW n \in Nat, NEW S \in SUBSET (1..n), S # {}
  PROVE  \E k \in S : \A j \in S : j <= k
<1> DEFINE T == {n - k : k \in S}
<1>0. \A k \in S : k \in Int /\ n - k \in Nat
  OBVIOUS
<1>1. T \subseteq Nat /\ T # {}
  BY <1>0
<1>2. PICK x \in T : \A y \in T : ~(<<y, x>> \in OpToRel(<, Nat))
  BY <1>1, NatLessThanWellFounded, WFMin
<1>3. \A y \in T : ~(y < x)
  BY <1>1, <1>2 DEF OpToRel
<1>4. PICK k \in S : x = n - k
  OBVIOUS
<1>5. \A j \in S : ~(n - j < n - k)
  BY <1>3, <1>4
<1> QED BY <1>5

\* The last place of a thing in a list that names it is a place of it.
LEMMA LastOfIsThere ==
  ASSUME NEW n \in Nat, NEW things, DOMAIN things = 1..n, NEW i \in ToSet(things)
  PROVE  LastOf(things, i) \in 1..n /\ things[LastOf(things, i)] = i
<1> DEFINE S == {k \in 1..n : things[k] = i}
<1>1. S \in SUBSET (1..n) /\ S # {}
  BY DEF ToSet
<1>2. \E k \in S : \A j \in S : j <= k
  BY <1>1, GreatestOf
<1>3. \E k \in DOMAIN things : things[k] = i /\ \A j \in DOMAIN things : things[j] = i => j <= k
  BY <1>2
<1> QED BY <1>3 DEF LastOf

\* The first entry of a list is a list of one.
LEMMA FirstOf ==
  ASSUME NEW S, NEW seq, seq[1] \in S
  PROVE  /\ SubSeq(seq, 1, 1) \in Seq(S)
         /\ Len(SubSeq(seq, 1, 1)) = 1
         /\ SubSeq(seq, 1, 1)[1] = seq[1]
<1>1. \A i \in 1..1 : seq[i] \in S
  OBVIOUS
<1>2. SubSeq(seq, 1, 1) \in Seq(S)
  BY <1>1, SubSeqProperties
<1>3. Len(SubSeq(seq, 1, 1)) = 1
  BY <1>1, SubSeqProperties
<1>4. SubSeq(seq, 1, 1)[1] = seq[1]
  BY <1>1, SubSeqProperties
<1> QED BY <1>2, <1>3, <1>4

\* An entry before a list of entries makes a list that is longer by one.
LEMMA AfterOne ==
  ASSUME NEW S, NEW s \in S, NEW n \in Nat, NEW rest \in [1..n -> S]
  PROVE  <<s>> \o rest \in [1..(n + 1) -> S] /\ (<<s>> \o rest)[1] = s
<1>1. <<s>> \in Seq(S) /\ rest \in Seq(S) /\ Len(<<s>>) = 1 /\ Len(rest) = n
  OBVIOUS
<1>2. /\ <<s>> \o rest \in Seq(S) /\ Len(<<s>> \o rest) = 1 + n
      /\ \A i \in 1..(1 + n) : (<<s>> \o rest)[i] = IF i <= 1 THEN <<s>>[i] ELSE rest[i - 1]
  BY <1>1, ConcatProperties
<1>3. 1 \in 1..(1 + n) /\ 1 + n = n + 1
  OBVIOUS
<1>4. (<<s>> \o rest)[1] = s
  BY <1>2, <1>3
<1>5. <<s>> \o rest \in [1..(n + 1) -> S]
  <2>1. \A seq \in Seq(S) : seq \in [1..Len(seq) -> S]
    BY LenProperties
  <2> QED BY <1>2, <1>3, <2>1
<1> QED BY <1>4, <1>5

\* A finite set, as a sequence, has its elements in it.
LEMMA SetToSeqType ==
  ASSUME NEW S, IsFiniteSet(S)
  PROVE  \E n \in Nat : SetToSeq(S) \in [1..n -> S]
<1>1. Cardinality(S) \in Nat /\ ExistsBijection(1..Cardinality(S), S)
  BY FS_CardinalityType
<1>2. \E f \in [1..Cardinality(S) -> S] : IsInjective(f)
  BY <1>1 DEF ExistsBijection, Bijection, Injection
<1>3. SetToSeq(S) \in [1..Cardinality(S) -> S]
  BY <1>2 DEF SetToSeq
<1> QED BY <1>1, <1>3

\* What the engine knows of some things is a finite set of them.
LEMMA KnownType ==
  ASSUME NEW ids \in SUBSET Things, NEW page \in SUBSET Known(ids)
  PROVE  IsFiniteSet(page) /\ page \subseteq ids
BY ThingsAssumption, FS_Subset DEF Known

-----------------------------------------------------------------------------
(* JSON.                                                                   *)

\* What a request carries to the engine reads back as what was asked, in any
\* of the messages that have JSON.
LEMMA CodecsInvert ==
  ASSUME NEW text \in Texts \cup {NoText}
  PROVE  /\ \A i \in Items \cup ItemTypes :
              /\ ToProto(i, text) \in Fields
              /\ FromProto(i, ToProto(i, text)) = ReadsAs(i, text)
         /\ ToProto(NewOrder, text) \in Fields
         /\ \A o \in Orders : FromProto(o, ToProto(NewOrder, text)) = ReadsAs(o, text)
<1>1. /\ text \in Texts => Denotes[text] \in Objects
      /\ EmptyObject \in Objects /\ Absent \notin Objects /\ NoText \notin Texts
      /\ NewOrder \notin Items \cup ItemTypes
      /\ \A i \in Items \cup ItemTypes : i \notin Orders /\ i \notin Players
      /\ \A o \in Orders : o \notin Players
  BY JsonAssumption, ThingsAssumption DEF Things
<1>2. JsonStringToGoogleStruct(text) \in Objects
  BY <1>1 DEF JsonStringToGoogleStruct
<1>3. ASSUME NEW i \in Items \cup ItemTypes
      PROVE  /\ ToProto(i, text) \in Fields
             /\ FromProto(i, ToProto(i, text)) = ReadsAs(i, text)
  <2>1. ToProto(i, text) = JsonStringToGoogleStruct(text)
    BY <1>1 DEF ToProto
  <2>2. FromProto(i, JsonStringToGoogleStruct(text)) = Printed[JsonStringToGoogleStruct(text)]
    BY <1>1, <1>2 DEF FromProto, GoogleStructToJsonString
  <2>3. ReadsAs(i, text) = Printed[JsonStringToGoogleStruct(text)]
    BY <1>1 DEF ReadsAs, JsonStringToGoogleStruct
  <2> QED BY <1>2, <2>1, <2>2, <2>3 DEF Fields
<1>4. ToProto(NewOrder, text) = IF text = NoText THEN Absent ELSE Denotes[text]
  BY <1>1 DEF ToProto, OrderToProto, JsonStringToGoogleStruct
<1>5. ToProto(NewOrder, text) \in Fields
  BY <1>1, <1>4 DEF Fields
<1>6. ASSUME NEW o \in Orders
      PROVE  FromProto(o, ToProto(NewOrder, text)) = ReadsAs(o, text)
  <2>1. FromProto(o, ToProto(NewOrder, text)) = IF text = NoText THEN NoText
                                                ELSE Printed[Denotes[text]]
    <3>1. FromProto(o, ToProto(NewOrder, text)) = OrderFromProto(ToProto(NewOrder, text))
      BY <1>1 DEF FromProto
    <3>2. CASE text = NoText
      BY <1>4, <3>1, <3>2 DEF OrderFromProto
    <3>3. CASE text # NoText
      BY <1>1, <1>4, <3>1, <3>3 DEF OrderFromProto, GoogleStructToJsonString
    <3> QED BY <3>2, <3>3
  <2>2. ReadsAs(o, text) = IF text = NoText THEN NoText ELSE Printed[Denotes[text]]
    BY <1>1 DEF ReadsAs
  <2> QED BY <2>1, <2>2
<1> QED BY <1>3, <1>5, <1>6

\* Whatever is read is a text of JSON, or none.
LEMMA ReadsText ==
  ASSUME NEW i \in Things, NEW field \in Fields
  PROVE  FromProto(i, field) \in Texts \cup {NoText}
BY JsonAssumption DEF FromProto, OrderFromProto, GoogleStructToJsonString, Fields

-----------------------------------------------------------------------------
(* The inductive invariant.                                                *)

\* The things that an rpc names
Scope(rpc) ==
  CASE rpc \in {"IssueItem", "TransferItem", "BurnItem", "GetItem", "UpdateItemMetadata"} -> Items
    [] rpc \in {"GetItemTypes", "CreateItemType", "FreezeItemType",
                "UpdateItemTypeMetadata"} -> ItemTypes
    [] rpc \in {"LinkPlayer", "GetPlayer"} -> Players
    [] rpc \in {"GetOrder", "FinalizeOrder"} -> Orders
    [] rpc = "CreateOrder" -> {NewOrder} \cup ItemTypes
    [] rpc \in {"GetItems", "GetPlayers", "GetToken"} -> {}

\* The rpcs that name any number of them; the others name one
Listing == {"UpdateItemMetadata", "GetItemTypes", "GetItems", "GetPlayers", "GetToken",
            "CreateOrder"}

Rpcs == Listing \cup {"IssueItem", "TransferItem", "BurnItem", "GetItem", "CreateItemType",
  "FreezeItemType", "UpdateItemTypeMetadata", "LinkPlayer", "GetPlayer", "GetOrder",
  "FinalizeOrder"}

\* The new order comes before the items purchased with it
OrderFirst(rpc, e) == rpc = "CreateOrder" => 1 \in DOMAIN e /\ e[1].thing = NewOrder

\* The parser that is bound to a call fits its rpc
Fits(p, rpc, entries) ==
  /\ p.kind \in {"echo", "read", "first", "named", "none", "token"}
  /\ p.kind = "echo" => rpc \notin Listing /\ p.thing \in Things /\ p.thing = entries[1].thing
  /\ p.kind = "named" => rpc = "CreateItemType"
  /\ p.kind \in {"read", "first"} => rpc \notin {"CreateItemType", "UpdateItemMetadata", "GetToken"}

\* A list of one thing or, for some rpcs, of any number
Entries(rpc) ==
  {e \in UNION {[1..n -> [thing : Scope(rpc), text : Texts \cup {NoText}]] : n \in Nat} :
     /\ rpc \notin Listing => DOMAIN e = 1..1
     /\ OrderFirst(rpc, e)}

\* What was sent is what was asked
AskedIsSent ==
  \A r \in Requests : request[r] # None =>
    /\ asked[r].rpc \in Rpcs
    /\ asked[r].entries \in Entries(asked[r].rpc)
    /\ request[r] = MakeRequest(asked[r].rpc, asked[r].entries)
    /\ Fits(parser[r], asked[r].rpc, asked[r].entries)

\* The engine has of each thing what the application last wrote of it
Consistent(i, field, text) == i \notin Players => FromProto(i, field) = ReadsAs(i, text)

StoredIsWritten ==
  \A i \in Things : stored[i] # Unknown => Consistent(i, stored[i], written[i])

\* A thing that the answer to a request may name
MayName(r, i) ==
  LET named == ToSet(Named(asked[r].entries))
  IN  \/ i \in named
      \/ asked[r].rpc = "CreateOrder" /\ i \in Orders
      \/ asked[r].rpc \in {"GetItems", "GetItemTypes", "GetPlayers"} /\ named = {}

\* An answer on its way back says of such things what was written of them then
GoodEntries(r, entries, n) ==
  /\ entries \in [1..n -> [thing : Things, field : Fields]]
  /\ asked[r].rpc = "CreateItemType" => n = 1
  /\ \A k \in 1..n : /\ MayName(r, entries[k].thing)
                     /\ Consistent(entries[k].thing, entries[k].field, saw[r][k])

AnswerIsConsistent ==
  \A r \in Requests : answer[r] # None =>
    /\ request[r] # None
    /\ answer[r].ok \in BOOLEAN
    /\ answer[r].ok => \E n \in Nat : GoodEntries(r, answer[r].entries, n)

ResultIsAnswered == \A r \in Requests : result[r] # None => answer[r] # None

Domains ==
  /\ DOMAIN asked = Requests /\ DOMAIN request = Requests /\ DOMAIN parser = Requests
  /\ DOMAIN answer = Requests /\ DOMAIN result = Requests /\ DOMAIN saw = Requests
  /\ DOMAIN written = Things

IInv ==
  /\ TypeOK /\ Domains
  /\ AskedIsSent /\ StoredIsWritten /\ AnswerIsConsistent
  /\ ResultIsAnswered /\ ResultNamesRequest /\ ReadsWhatWasWritten

-----------------------------------------------------------------------------
(* Making a call.                                                          *)

LEMMA ScopeIsThings ==
  ASSUME NEW rpc \in Rpcs
  PROVE  Scope(rpc) \subseteq Things \cup {NewOrder}
BY DEF Scope, Rpcs, Listing, Things

\* The message of a call names what the call names, in the same order, with
\* the JSON given in the engine's form.
LEMMA MessageOf ==
  ASSUME NEW rpc \in Rpcs, NEW entries \in Entries(rpc)
  PROVE  LET m == MakeRequest(rpc, entries)
         IN  /\ m.rpc = rpc
             /\ Named(m.entries) = Named(entries)
             /\ DOMAIN m.entries = DOMAIN entries
             /\ \A k \in DOMAIN entries :
                  /\ m.entries[k] \in [thing : Things \cup {NewOrder}, field : Fields]
                  /\ m.entries[k].thing = entries[k].thing
                  /\ rpc \in Carries =>
                       m.entries[k].field = ToProto(entries[k].thing, entries[k].text)
<1> DEFINE m == MakeRequest(rpc, entries)
<1>1. /\ m.rpc = rpc
      /\ m.entries = [k \in DOMAIN entries |->
                       [thing |-> entries[k].thing,
                        field |-> IF rpc \in Carries THEN ToProto(entries[k].thing, entries[k].text)
                                                     ELSE Absent]]
  BY DEF MakeRequest
<1> HIDE DEF m
<1>2. Named(m.entries) = Named(entries)
  BY <1>1 DEF Named
<1>3. ASSUME NEW k \in DOMAIN entries
      PROVE  entries[k].thing \in Scope(rpc) /\ entries[k].text \in Texts \cup {NoText}
  BY DEF Entries
<1>4. ASSUME NEW k \in DOMAIN entries, rpc \in Carries
      PROVE  ToProto(entries[k].thing, entries[k].text) \in Fields
  <2>1. Scope(rpc) \subseteq Items \cup ItemTypes \cup {NewOrder}
    BY <1>4 DEF Carries, Scope
  <2> QED BY <1>3, <2>1, CodecsInvert
<1>5. ASSUME NEW k \in DOMAIN entries
      PROVE  m.entries[k] \in [thing : Things \cup {NewOrder}, field : Fields]
  <2>1. entries[k].thing \in Things \cup {NewOrder}
    BY <1>3, ScopeIsThings
  <2>2. Absent \in Fields
    BY DEF Fields
  <2> QED BY <1>1, <1>4, <2>1, <2>2
<1> QED BY <1>1, <1>2, <1>5 DEF m

\* An answer stays a good one as long as its call is what it was.
LEMMA AnswerStays ==
  ASSUME NEW q \in Requests, AnswerIsConsistent,
         UNCHANGED <<request[q], asked[q], saw[q], answer[q]>>
  PROVE  answer'[q] # None =>
           /\ request'[q] # None
           /\ answer'[q].ok \in BOOLEAN
           /\ answer'[q].ok => \E n \in Nat : GoodEntries(q, answer[q].entries, n)'
<1>1. ASSUME NEW n \in Nat, GoodEntries(q, answer[q].entries, n)
      PROVE  GoodEntries(q, answer[q].entries, n)'
  BY <1>1 DEF GoodEntries, MayName, Consistent
<1> QED BY <1>1 DEF AnswerIsConsistent

\* The end of the program leaves everything else as it is.
LEMMA ExitInv ==
  ASSUME IInv, exited' \in BOOLEAN,
         UNCHANGED <<asked, request, parser, answer, result, stored, written, saw>>
  PROVE  IInv'
<1>1. TypeOK' /\ Domains' /\ AskedIsSent' /\ ResultIsAnswered'
  BY DEF IInv, TypeOK, Domains, AskedIsSent, ResultIsAnswered
<1>2. StoredIsWritten'
  BY DEF IInv, StoredIsWritten, Consistent
<1>3. AnswerIsConsistent'
  BY AnswerStays DEF IInv, AnswerIsConsistent
<1>4. ResultNamesRequest' /\ ReadsWhatWasWritten'
  BY DEF IInv, ResultNamesRequest, ReadsWhatWasWritten, Succeeded
<1> QED BY <1>1, <1>2, <1>3, <1>4 DEF IInv

\* A call changes nothing but what is asked and sent for it, and that is well
\* formed; a malformed text ends the program.
LEMMA CallInv ==
  ASSUME IInv, NEW r \in Requests, NEW rpc \in Rpcs, NEW entries, NEW kind, NEW thing,
         NEW n \in Nat, entries \in [1..n -> [thing : Scope(rpc), text : Given]],
         rpc \notin Listing => n = 1, OrderFirst(rpc, entries),
         Fits([kind |-> kind, thing |-> thing], rpc, entries),
         Ask(r, rpc, entries, kind, thing)
  PROVE  IInv'
<1> DEFINE intent == [rpc |-> rpc, entries |-> entries]
<1>1. /\ request[r] = None
      /\ UNCHANGED <<answer, result, stored, written, saw>>
  BY DEF Ask, Call, engineVars
<1>2. answer[r] = None /\ result[r] = None
  BY <1>1 DEF IInv, AnswerIsConsistent, ResultIsAnswered
<1>3. CASE \E k \in DOMAIN entries : entries[k].text = Malformed
  BY <1>3, ExitInv DEF Ask, Call, callVars, engineVars
<1>4. CASE ~ \E k \in DOMAIN entries : entries[k].text = Malformed
  <2>1. /\ request' = [request EXCEPT ![r] = MakeRequest(rpc, entries)]
        /\ parser' = [parser EXCEPT ![r] = [kind |-> kind, thing |-> thing]]
        /\ asked' = [asked EXCEPT ![r] = intent]
        /\ exited' = exited
    BY <1>4 DEF Ask, Call, Submit
  <2> DEFINE E == [thing : Scope(rpc), text : Texts \cup {NoText}]
  <2>2. entries \in [1..n -> E]
    <3>1. \A k \in 1..n : entries[k].text \in Given /\ entries[k].text # Malformed
      BY <1>4
    <3>2. \A k \in 1..n : entries[k] \in E
      BY <3>1 DEF Given
    <3> QED BY <3>2
  <2>3. entries \in Entries(rpc)
    BY <2>2 DEF Entries, OrderFirst
  <2>4. /\ \A q \in Requests \ {r} : /\ request'[q] = request[q] /\ parser'[q] = parser[q]
                                      /\ asked'[q] = asked[q]
        /\ request'[r] = MakeRequest(rpc, entries) /\ asked'[r] = intent
        /\ parser'[r] = [kind |-> kind, thing |-> thing]
    BY <2>1 DEF IInv, Domains
  <2> HIDE DEF intent
  <2>5. Domains'
    BY <1>1, <2>1 DEF IInv, Domains
  <2>6. AskedIsSent'
    BY <2>3, <2>4 DEF intent, IInv, AskedIsSent
  <2>7. TypeOK'
    <3>1. \A k \in DOMAIN request'[r].entries :
            request'[r].entries[k] \in [thing : Things \cup {NewOrder}, field : Fields]
      BY <2>3, <2>4, MessageOf
    <3> QED BY <1>1, <2>1, <2>4, <3>1 DEF IInv, TypeOK
  <2>8. StoredIsWritten' /\ ResultIsAnswered'
    BY <1>1 DEF IInv, StoredIsWritten, Consistent, ResultIsAnswered
  <2>9. AnswerIsConsistent'
    BY <1>1, <1>2, <2>4, AnswerStays DEF IInv, AnswerIsConsistent
  <2>10. ResultNamesRequest' /\ ReadsWhatWasWritten'
    BY <1>1, <1>2, <2>4 DEF IInv, ResultNamesRequest, ReadsWhatWasWritten, Succeeded
  <2> QED BY <2>5, <2>6, <2>7, <2>8, <2>9, <2>10 DEF IInv
<1> QED BY <1>3, <1>4

LEMMA CallOfOne ==
  ASSUME IInv, NEW r \in Requests, NEW rpc \in Rpcs, NEW i \in Scope(rpc), NEW t \in Given,
         NEW kind, NEW thing, rpc # "CreateOrder",
         Fits([kind |-> kind, thing |-> thing], rpc, <<Entry(i, t)>>),
         Ask(r, rpc, <<Entry(i, t)>>, kind, thing)
  PROVE  IInv'
<1>1. Entry(i, t) \in [thing : Scope(rpc), text : Given]
  BY DEF Entry
<1>2. <<Entry(i, t)>> \in [1..1 -> [thing : Scope(rpc), text : Given]]
  BY <1>1
<1> QED BY <1>2, CallInv DEF OrderFirst

LEMMA CallOfNone ==
  ASSUME IInv, NEW r \in Requests, NEW rpc \in Listing, NEW kind \in {"read", "token"},
         kind = "token" => rpc = "GetToken", kind = "read" => rpc \in {"GetItems", "GetPlayers"},
         Ask(r, rpc, <<>>, kind, None)
  PROVE  IInv'
<1>1. <<>> \in [1..0 -> [thing : Scope(rpc), text : Given]]
  OBVIOUS
<1>2. rpc \in Rpcs /\ Fits([kind |-> kind, thing |-> None], rpc, <<>>) /\ OrderFirst(rpc, <<>>)
  BY DEF Rpcs, Fits, OrderFirst
<1> QED BY <1>1, <1>2, CallInv

\* The requests of the item client.
LEMMA ItemClientInv ==
  ASSUME IInv, NEW r \in Requests, ItemClient(r)
  PROVE  IInv'
<1> USE DEF Scope, Rpcs, Listing, Fits, Entry, Given, Things
<1>1. CASE IssueItem(r)
  BY <1>1, CallOfOne DEF IssueItem, Change
<1>2. CASE TransferItem(r)
  BY <1>2, CallOfOne DEF TransferItem, Change
<1>3. CASE BurnItem(r)
  BY <1>3, CallOfOne DEF BurnItem, Change
<1>4. CASE GetItem(r)
  BY <1>4, CallOfOne DEF GetItem
<1>5. CASE GetItems(r)
  BY <1>5, CallOfNone DEF GetItems
<1>6. CASE UpdateItemMetadata(r)
  BY <1>6, ThingsAssumption, CallInv
     DEF UpdateItemMetadata, MakeUpdateItemMetadata, OrderFirst
<1> QED BY <1>1, <1>2, <1>3, <1>4, <1>5, <1>6 DEF ItemClient

\* The requests of the item type client.
LEMMA ItemTypeClientInv ==
  ASSUME IInv, NEW r \in Requests, ItemTypeClient(r)
  PROVE  IInv'
<1> USE DEF Scope, Rpcs, Listing, Fits, Entry, Given, Things
<1>1. CASE GetItemType(r)
  BY <1>1, CallOfOne DEF GetItemType
<1>2. CASE GetItemTypes(r)
  BY <1>2, ThingsAssumption, CallInv DEF GetItemTypes, OrderFirst
<1>3. CASE CreateItemType(r)
  BY <1>3, CallOfOne DEF CreateItemType
<1>4. CASE FreezeItemType(r)
  BY <1>4, CallOfOne DEF FreezeItemType, Change
<1>5. CASE UpdateItemTypeMetadata(r)
  BY <1>5, CallOfOne DEF UpdateItemTypeMetadata
<1> QED BY <1>1, <1>2, <1>3, <1>4, <1>5 DEF ItemTypeClient

\* The requests of the player, order and payment clients.
LEMMA OtherClientsInv ==
  ASSUME IInv, NEW r \in Requests, OtherClients(r)
  PROVE  IInv'
<1> USE DEF Scope, Rpcs, Listing, Fits, Entry, Given, Things
<1>1. CASE LinkPlayer(r)
  BY <1>1, CallOfOne DEF LinkPlayer, Change
<1>2. CASE GetPlayer(r)
  BY <1>2, CallOfOne DEF GetPlayer
<1>3. CASE GetPlayers(r)
  BY <1>3, CallOfNone DEF GetPlayers
<1>4. CASE GetOrder(r)
  BY <1>4, CallOfOne DEF GetOrder
<1>5. CASE CreatePrimaryOrder(r)
  <2>0. PICK t \in Given, n \in 0..MaxPurchased :
          \E purchased \in [1..n -> [thing : ItemTypes, text : Given]] :
            Ask(r, "CreateOrder", <<Entry(NewOrder, t)>> \o purchased, "read", None)
    BY <1>5 DEF CreatePrimaryOrder
  <2>1. PICK purchased \in [1..n -> [thing : ItemTypes, text : Given]] :
          Ask(r, "CreateOrder", <<Entry(NewOrder, t)>> \o purchased, "read", None)
    BY <2>0
  <2> DEFINE E == [thing : Scope("CreateOrder"), text : Given]
             e == <<Entry(NewOrder, t)>> \o purchased
  <2>2. n \in Nat /\ Entry(NewOrder, t) \in E /\ purchased \in [1..n -> E]
    BY ThingsAssumption
  <2>3. e \in [1..(n + 1) -> E] /\ e[1].thing = NewOrder /\ n + 1 \in Nat
    <3> DEFINE first == Entry(NewOrder, t)
    <3> HIDE DEF E, first
    <3>1. e \in [1..(n + 1) -> E] /\ e[1] = first
      BY <2>2, AfterOne DEF first
    <3> USE DEF first
    <3> QED BY <2>2, <3>1
  <2>4. OrderFirst("CreateOrder", e)
    BY <2>2, <2>3 DEF OrderFirst
  <2> HIDE DEF E, e
  <2> QED BY <2>1, <2>3, <2>4, CallInv DEF E, e
<1>6. CASE FinalizeOrder(r)
  BY <1>6, CallOfOne DEF FinalizeOrder
<1>7. CASE GetToken(r)
  <2>1. CASE Ask(r, "GetToken", <<>>, "token", None)
    BY <2>1, CallOfNone
  <2>2. CASE exited' = TRUE /\ UNCHANGED <<callVars, answer, result, engineVars>>
    BY <2>2, ExitInv DEF callVars, engineVars
  <2> QED BY <1>7, <2>1, <2>2 DEF GetToken
<1> QED BY <1>1, <1>2, <1>3, <1>4, <1>5, <1>6, <1>7 DEF OtherClients

-----------------------------------------------------------------------------
(* The engine.                                                             *)

\* The engine has what a message says of a thing, and the application has
\* written just that.
LEMMA WritesInv ==
  ASSUME IInv, NEW r \in Requests, request[r] # None, Writes(r),
         asked[r].rpc \in {"IssueItem", "CreateItemType", "UpdateItemMetadata",
                           "UpdateItemTypeMetadata"}
  PROVE  /\ stored' \in [Things -> Fields \cup {Unknown}]
         /\ DOMAIN written' = Things
         /\ StoredIsWritten'
         /\ \A i \in ToSet(Named(asked[r].entries)) : i \in Things /\ stored'[i] # Unknown
<1> DEFINE e == asked[r].entries
           m == request[r].entries
           said == Named(e)
<1>1. /\ asked[r].rpc \in Rpcs /\ e \in Entries(asked[r].rpc)
      /\ request[r] = MakeRequest(asked[r].rpc, e)
  BY DEF IInv, AskedIsSent
<1>2. Scope(asked[r].rpc) \subseteq Items \cup ItemTypes /\ asked[r].rpc \in Carries
  BY DEF Scope, Carries
<1>3. PICK n \in Nat : e \in [1..n -> [thing : Scope(asked[r].rpc), text : Texts \cup {NoText}]]
  BY <1>1 DEF Entries
<1>4. /\ Named(m) = said /\ DOMAIN m = 1..n /\ DOMAIN said = 1..n
      /\ \A k \in 1..n : said[k] = e[k].thing /\ m[k].field = ToProto(e[k].thing, e[k].text)
  <2>1. /\ Named(m) = Named(e) /\ DOMAIN m = DOMAIN e
        /\ \A k \in DOMAIN e : m[k].field = ToProto(e[k].thing, e[k].text)
    BY <1>1, <1>2, MessageOf
  <2> QED BY <1>3, <2>1 DEF Named
<1>5. ASSUME NEW i \in ToSet(said)
      PROVE  /\ i \in Items \cup ItemTypes
             /\ m[LastOf(said, i)].field \in Fields
             /\ FromProto(i, m[LastOf(said, i)].field) = ReadsAs(i, e[LastOf(said, i)].text)
  <2> DEFINE k == LastOf(said, i)
  <2>1. k \in 1..n /\ said[k] = i
    BY <1>4, LastOfIsThere
  <2> HIDE DEF k
  <2>2. e[k].thing = i /\ i \in Items \cup ItemTypes /\ e[k].text \in Texts \cup {NoText}
    BY <1>2, <1>3, <1>4, <2>1
  <2>3. m[k].field = ToProto(i, e[k].text)
    BY <1>4, <2>1, <2>2
  <2> QED BY <2>2, <2>3, CodecsInvert DEF k
<1>6. /\ stored' = [i \in Things |-> IF i \in ToSet(said) THEN m[LastOf(said, i)].field
                                                           ELSE stored[i]]
      /\ written' = [i \in Things |-> IF i \in ToSet(said) THEN e[LastOf(said, i)].text
                                                            ELSE written[i]]
  BY <1>4 DEF Writes
<1> HIDE DEF e, m, said
<1>7. stored' \in [Things -> Fields \cup {Unknown}] /\ DOMAIN written' = Things
  BY <1>5, <1>6 DEF IInv, TypeOK
<1>8. StoredIsWritten'
  BY <1>5, <1>6 DEF IInv, StoredIsWritten, Consistent
<1>9. \A i \in ToSet(said) : i \in Things /\ stored'[i] # Unknown
  BY <1>5, <1>6, ThingsAssumption DEF Things, Fields
<1> QED BY <1>7, <1>8, <1>9 DEF said, e

\* An executed request: its answer says what is stored of things that it may
\* name, and nothing else is answered.
LEMMA ReadsInv ==
  ASSUME IInv, NEW r \in Requests, InFlight(r),
         stored' \in [Things -> Fields \cup {Unknown}], DOMAIN written' = Things,
         StoredIsWritten',
         NEW n \in Nat, NEW things \in [1..n -> Things],
         \A k \in 1..n : stored'[things[k]] # Unknown /\ MayName(r, things[k]),
         asked[r].rpc = "CreateItemType" => n = 1,
         Reads(r, things), UNCHANGED <<callVars, result, exited>>
  PROVE  IInv'
<1> DEFINE es == [k \in 1..n |-> [thing |-> things[k], field |-> stored'[things[k]]]]
           texts == [k \in 1..n |-> written'[things[k]]]
<1>1. /\ request[r] # None /\ answer[r] = None /\ result[r] = None
      /\ UNCHANGED <<asked, request, parser, result, exited>>
  BY DEF InFlight, callVars, IInv, ResultIsAnswered
<1>2. /\ \A q \in Requests \ {r} : answer'[q] = answer[q] /\ saw'[q] = saw[q]
      /\ answer'[r] = [ok |-> TRUE, entries |-> es] /\ saw'[r] = texts
      /\ DOMAIN answer' = Requests /\ DOMAIN saw' = Requests
  BY DEF Reads, IInv, Domains
<1>3. \A k \in 1..n : es[k].thing = things[k] /\ es[k].field = stored'[things[k]]
  OBVIOUS
<1>4. GoodEntries(r, answer[r].entries, n)'
  <2>1. es \in [1..n -> [thing : Things, field : Fields]]
    <3>1. \A k \in 1..n : things[k] \in Things /\ stored'[things[k]] \in Fields
      OBVIOUS
    <3> QED BY <3>1
  <2>2. ASSUME NEW k \in 1..n
        PROVE  /\ MayName(r, things[k])'
               /\ Consistent(things[k], stored'[things[k]], texts[k])
    <3>1. MayName(r, things[k])'
      BY <1>1 DEF MayName
    <3>2. Consistent(things[k], stored'[things[k]], written'[things[k]])
      BY DEF StoredIsWritten, Consistent
    <3> QED BY <3>1, <3>2
  <2>3. answer'[r].entries = es
    BY <1>2
  <2> HIDE DEF es, texts
  <2> QED BY <1>1, <1>2, <1>3, <2>1, <2>2, <2>3 DEF GoodEntries, Consistent, MayName
<1> HIDE DEF es, texts
<1>5. TypeOK' /\ Domains' /\ AskedIsSent' /\ ResultIsAnswered'
  BY <1>1, <1>2 DEF IInv, TypeOK, Domains, AskedIsSent, ResultIsAnswered
<1>6. AnswerIsConsistent'
  <2>1. ASSUME NEW q \in Requests \ {r}
        PROVE  answer'[q] # None =>
                 /\ request'[q] # None
                 /\ answer'[q].ok \in BOOLEAN
                 /\ answer'[q].ok => \E j \in Nat : GoodEntries(q, answer[q].entries, j)'
    BY <1>1, <1>2, AnswerStays DEF IInv
  <2>2. /\ request'[r] # None
        /\ answer'[r].ok \in BOOLEAN
        /\ \E j \in Nat : GoodEntries(r, answer[r].entries, j)'
    BY <1>1, <1>2, <1>4
  <2> QED BY <2>1, <2>2 DEF AnswerIsConsistent
<1>7. ResultNamesRequest'
  BY <1>1, <1>2 DEF IInv, ResultNamesRequest, Succeeded
<1>8. ReadsWhatWasWritten'
  BY <1>1, <1>2 DEF IInv, ReadsWhatWasWritten, Succeeded
<1> QED BY <1>5, <1>6, <1>7, <1>8 DEF IInv

LEMMA ExecuteInv ==
  ASSUME IInv, NEW r \in Requests, Execute(r)
  PROVE  IInv'
<1> DEFINE rpc == asked[r].rpc
           e == asked[r].entries
           ids == Named(e)
<1>1. /\ InFlight(r) /\ request[r] # None /\ UNCHANGED <<callVars, result, exited>>
  BY DEF Execute, InFlight
<1>2. /\ rpc \in Rpcs /\ e \in Entries(rpc) /\ request[r] = MakeRequest(rpc, e)
  BY <1>1 DEF IInv, AskedIsSent
<1>3. request[r].rpc = rpc /\ Named(request[r].entries) = ids
  BY <1>2, MessageOf
<1>4. PICK n \in Nat : /\ e \in [1..n -> [thing : Scope(rpc), text : Texts \cup {NoText}]]
                       /\ rpc \notin Listing => n = 1
  <2>1. PICK n \in Nat : e \in [1..n -> [thing : Scope(rpc), text : Texts \cup {NoText}]]
    BY <1>2 DEF Entries
  <2>2. rpc \notin Listing => DOMAIN e = 1..1
    BY <1>2 DEF Entries
  <2>3. DOMAIN e = 1..n
    BY <2>1
  <2>4. 1..n = 1..1 => n = 1
    OBVIOUS
  <2> QED BY <2>1, <2>2, <2>3, <2>4
<1>5. ids \in [1..n -> Scope(rpc)]
  BY <1>4 DEF Named
<1>6. \A i \in ToSet(ids) : MayName(r, i)
  BY DEF MayName
<1>7. /\ stored \in [Things -> Fields \cup {Unknown}] /\ DOMAIN written = Things
      /\ StoredIsWritten
  BY DEF IInv, TypeOK, Domains
<1> HIDE DEF ids, e, rpc
\* the answer of a request that changes nothing and names nothing
<1>8. ASSUME Reads(r, <<>>), rpc # "CreateItemType",
             stored' \in [Things -> Fields \cup {Unknown}], DOMAIN written' = Things,
             StoredIsWritten'
      PROVE  IInv'
  <2>1. <<>> \in [1..0 -> Things]
    OBVIOUS
  <2>2. \A k \in 1..0 : stored'[<<>>[k]] # Unknown /\ MayName(r, <<>>[k])
    OBVIOUS
  <2> QED BY <1>1, <1>8, <2>1, <2>2, ReadsInv DEF rpc
<1>9. CASE /\ rpc \in {"IssueItem", "CreateItemType"}
           /\ Writes(r)
           /\ Reads(r, IF rpc = "CreateItemType" THEN ids ELSE <<>>)
  <2>1. /\ stored' \in [Things -> Fields \cup {Unknown}] /\ DOMAIN written' = Things
        /\ StoredIsWritten'
        /\ \A i \in ToSet(ids) : i \in Things /\ stored'[i] # Unknown
    BY <1>1, <1>9, WritesInv DEF ids, e, rpc
  <2>2. CASE rpc = "IssueItem"
    BY <1>8, <1>9, <2>1, <2>2
  <2>3. CASE rpc = "CreateItemType"
    <3>1. \A k \in 1..n : ids[k] \in ToSet(ids)
      BY <1>5 DEF ToSet
    <3>2. ids \in [1..n -> Things] /\ n = 1
      BY <1>4, <1>5, <2>1, <2>3, <3>1 DEF Listing
    <3> QED BY <1>1, <1>6, <1>9, <2>1, <2>3, <3>1, <3>2, ReadsInv DEF rpc
  <2> QED BY <1>9, <2>2, <2>3
<1>10. CASE /\ rpc \in {"UpdateItemMetadata", "UpdateItemTypeMetadata"}
            /\ Writes(r)
            /\ Reads(r, <<>>)
  BY <1>1, <1>8, <1>10, WritesInv DEF rpc
<1>11. CASE /\ rpc = "LinkPlayer"
            /\ stored' = [stored EXCEPT ![ids[1]] = Absent]
            /\ UNCHANGED written
            /\ Reads(r, <<>>)
  <2>1. ids[1] \in Players
    BY <1>4, <1>5, <1>11 DEF Listing, Scope
  <2>2. /\ stored' \in [Things -> Fields \cup {Unknown}] /\ DOMAIN written' = Things
        /\ \A i \in Things \ Players : stored'[i] = stored[i] /\ written'[i] = written[i]
    BY <1>7, <1>11, <2>1 DEF Fields
  <2>3. StoredIsWritten'
    BY <1>7, <2>2 DEF StoredIsWritten, Consistent
  <2> QED BY <1>8, <1>11, <2>2, <2>3
<1>12. ASSUME rpc = "CreateOrder", NEW o \in Orders,
              stored' = [stored EXCEPT ![o] = request[r].entries[1].field],
              written' = [written EXCEPT ![o] = e[1].text],
              Reads(r, <<o>>)
       PROVE  IInv'
  <2>1. 1 \in DOMAIN e /\ e[1].thing = NewOrder /\ e[1].text \in Texts \cup {NoText}
    BY <1>2, <1>4, <1>12 DEF Entries, OrderFirst
  <2>2. request[r].entries[1].field = ToProto(NewOrder, e[1].text)
    BY <1>2, <1>4, <1>12, <2>1, MessageOf DEF Carries
  <2>3. /\ request[r].entries[1].field \in Fields
        /\ Consistent(o, request[r].entries[1].field, e[1].text)
    BY <1>12, <2>1, <2>2, CodecsInvert DEF Consistent
  <2>4. o \in Things
    BY <1>12 DEF Things
  <2>5. /\ stored' \in [Things -> Fields \cup {Unknown}] /\ DOMAIN written' = Things
        /\ stored'[o] \in Fields /\ Consistent(o, stored'[o], written'[o])
        /\ \A i \in Things \ {o} : stored'[i] = stored[i] /\ written'[i] = written[i]
    BY <1>7, <1>12, <2>3, <2>4
  <2>6. StoredIsWritten'
    BY <1>7, <2>5 DEF StoredIsWritten, Consistent
  <2>7. stored'[o] # Unknown
    BY <2>5, ThingsAssumption DEF Fields
  <2>8. MayName(r, o)
    BY <1>12 DEF MayName, rpc
  <2>9. <<o>> \in [1..1 -> Things]
    BY <2>4
  <2>10. \A k \in 1..1 : stored'[<<o>>[k]] # Unknown /\ MayName(r, <<o>>[k])
    BY <2>7, <2>8
  <2>11. rpc = "CreateItemType" => 1 = 1
    OBVIOUS
  <2> QED BY <1>1, <1>12, <2>5, <2>6, <2>9, <2>10, <2>11, ReadsInv
<1>13. CASE /\ rpc \in {"TransferItem", "BurnItem", "FreezeItemType", "FinalizeOrder", "GetToken"}
            /\ UNCHANGED <<stored, written>>
            /\ Reads(r, <<>>)
  BY <1>7, <1>8, <1>13 DEF StoredIsWritten, Consistent
\* the answer of a request that changes nothing and names what is known
<1>14. ASSUME UNCHANGED <<stored, written>>, rpc # "CreateItemType",
              NEW S \in SUBSET Things, NEW page \in SUBSET Known(S),
              \A i \in S : MayName(r, i), Reads(r, SetToSeq(page))
       PROVE  IInv'
  <2>1. PICK j \in Nat : SetToSeq(page) \in [1..j -> page]
    BY KnownType, SetToSeqType
  <2>2. \A i \in page : i \in Things /\ stored'[i] # Unknown /\ MayName(r, i)
    BY <1>14 DEF Known
  <2>3. StoredIsWritten'
    BY <1>7, <1>14 DEF StoredIsWritten, Consistent
  <2>4. SetToSeq(page) \in [1..j -> Things]
    BY <2>1, <2>2
  <2> QED BY <1>1, <1>7, <1>14, <2>1, <2>2, <2>3, <2>4, ReadsInv DEF rpc
<1>15. CASE /\ rpc \in {"GetItem", "GetPlayer", "GetOrder"}
            /\ stored[ids[1]] # Unknown
            /\ UNCHANGED <<stored, written>>
            /\ Reads(r, ids)
  <2>1. n = 1
    BY <1>4, <1>15 DEF Listing
  <2>2. Scope(rpc) \subseteq Things
    BY <1>15 DEF Scope, Things
  <2>3. ids \in [1..1 -> Things] /\ ids[1] \in ToSet(ids)
    BY <1>5, <2>1, <2>2 DEF ToSet
  <2>4. StoredIsWritten'
    BY <1>7, <1>15 DEF StoredIsWritten, Consistent
  <2>5. \A k \in 1..1 : stored'[ids[k]] # Unknown /\ MayName(r, ids[k])
    BY <1>6, <1>15, <2>3
  <2>6. stored' \in [Things -> Fields \cup {Unknown}] /\ DOMAIN written' = Things
    BY <1>7, <1>15
  <2> QED BY <1>1, <1>15, <2>3, <2>4, <2>5, <2>6, ReadsInv DEF rpc
<1>16. CASE /\ rpc \in {"GetItems", "GetPlayers"}
            /\ UNCHANGED <<stored, written>>
            /\ \E page \in SUBSET Known(IF rpc = "GetItems" THEN Items ELSE Players) :
                 Reads(r, SetToSeq(page))
  <2>1. ToSet(ids) = {}
    BY <1>5, <1>16 DEF Scope, ToSet
  <2>2. \A i : MayName(r, i)
    BY <1>16, <2>1 DEF MayName, rpc, ids, e
  <2> QED BY <1>14, <1>16, <2>2 DEF Things
<1>17. CASE /\ rpc = "GetItemTypes"
            /\ UNCHANGED <<stored, written>>
            /\ Reads(r, SetToSeq(Known(IF ids = <<>> THEN ItemTypes ELSE ToSet(ids))))
  <2> DEFINE S == IF ids = <<>> THEN ItemTypes ELSE ToSet(ids)
  <2>1. ids = <<>> => ToSet(ids) = {}
    BY DEF ToSet
  <2>2. \A i \in S : MayName(r, i)
    BY <1>6, <1>17, <2>1 DEF MayName, rpc, ids, e
  <2>3. ToSet(ids) \subseteq ItemTypes
    BY <1>5, <1>17 DEF Scope, ToSet
  <2>4. S \in SUBSET Things
    BY <2>3 DEF Things
  <2> HIDE DEF S
  <2>5. Known(S) \in SUBSET Known(S)
    OBVIOUS
  <2>6. Reads(r, SetToSeq(Known(S)))
    BY <1>17 DEF S
  <2> QED BY <1>14, <1>17, <2>2, <2>4, <2>5, <2>6
<1> QED BY <1>3, <1>9, <1>10, <1>11, <1>12, <1>13, <1>15, <1>16, <1>17 DEF Execute, e

\* A failure, before or after the execution, answers nothing.
LEMMA FailInv ==
  ASSUME IInv, NEW r \in Requests, Refuse(r) \/ LoseAnswer(r)
  PROVE  IInv'
<1>1. /\ request[r] # None /\ result[r] = None
      /\ UNCHANGED <<asked, request, parser, result, stored, written, saw, exited>>
      /\ answer' = [answer EXCEPT ![r] = [ok |-> FALSE, entries |-> <<>>]]
  BY DEF Refuse, LoseAnswer, InFlight, callVars, engineVars, IInv, ResultIsAnswered
<1>2. /\ \A q \in Requests \ {r} : answer'[q] = answer[q]
      /\ answer'[r].ok = FALSE
      /\ DOMAIN answer' = Requests
  BY <1>1 DEF IInv, Domains
<1>3. TypeOK' /\ Domains' /\ AskedIsSent' /\ ResultIsAnswered'
  BY <1>1, <1>2 DEF IInv, TypeOK, Domains, AskedIsSent, ResultIsAnswered
<1>4. StoredIsWritten'
  BY <1>1 DEF IInv, StoredIsWritten, Consistent
<1>5. AnswerIsConsistent'
  <2>1. ASSUME NEW q \in Requests \ {r}
        PROVE  answer'[q] # None =>
                 /\ request'[q] # None
                 /\ answer'[q].ok \in BOOLEAN
                 /\ answer'[q].ok => \E n \in Nat : GoodEntries(q, answer[q].entries, n)'
    BY <1>1, <1>2, AnswerStays DEF IInv
  <2> QED BY <1>1, <1>2, <2>1 DEF AnswerIsConsistent
<1>6. ResultNamesRequest' /\ ReadsWhatWasWritten'
  BY <1>1 DEF IInv, ResultNamesRequest, ReadsWhatWasWritten, Succeeded
<1> QED BY <1>3, <1>4, <1>5, <1>6 DEF IInv

-----------------------------------------------------------------------------
(* The callback.                                                           *)

\* What a parser makes of a good answer, entry by entry.
IsParsed(kind, thing, n, entries, parsed) ==
  /\ parsed \in Payloads
  /\ kind = "echo" => \A k \in DOMAIN parsed : parsed[k].thing = thing
  /\ kind = "named" => \A k \in DOMAIN parsed : parsed[k].thing = entries[1].thing
  /\ kind \in {"none", "token"} => DOMAIN parsed = {}
  /\ kind \in {"read", "first"} => \A k \in DOMAIN parsed :
       /\ k \in 1..n
       /\ parsed[k] = Entry(entries[k].thing, FromProto(entries[k].thing, entries[k].field))

LEMMA ParsedEntries ==
  ASSUME NEW kind \in {"echo", "read", "first", "named", "none", "token"}, NEW thing,
         kind = "echo" => thing \in Things,
         NEW n \in Nat, NEW entries \in [1..n -> [thing : Things, field : Fields]],
         kind = "named" => n = 1, Found(kind, entries)
  PROVE  IsParsed(kind, thing, n, entries, Parsed(kind, thing, entries))
<1> DEFINE E == [thing : Things, text : Texts \cup {NoText}]
           payload == [k \in DOMAIN entries |->
                        Entry(entries[k].thing, FromProto(entries[k].thing, entries[k].field))]
           parsed == Parsed(kind, thing, entries)
<1>1. payload \in [1..n -> E]
  BY ReadsText DEF Entry
<1>2. \A k \in 1..n : payload[k] = Entry(entries[k].thing,
                                         FromProto(entries[k].thing, entries[k].field))
  OBVIOUS
<1>3. kind = "first" => n >= 1
  BY DEF Found
<1>4. /\ kind = "echo" => parsed = <<Entry(thing, NoText)>>
      /\ kind = "named" => parsed = <<Entry(entries[1].thing, NoText)>>
      /\ kind = "read" => parsed = payload
      /\ kind = "first" => parsed = SubSeq(payload, 1, 1)
      /\ kind \in {"none", "token"} => parsed = <<>>
  BY DEF Parsed
<1>5. ASSUME NEW i \in Things PROVE Entry(i, NoText) \in E /\ Entry(i, NoText).thing = i
  BY DEF Entry
<1>6. Payloads = Seq(E)
  BY DEF Payloads
<1> HIDE DEF payload, parsed, E
<1> SUFFICES IsParsed(kind, thing, n, entries, parsed)
  BY DEF parsed
<1> USE DEF IsParsed
<1>7. CASE kind \in {"echo", "named"}
  <2>1. PICK i \in Things : /\ parsed = <<Entry(i, NoText)>>
                            /\ kind = "echo" => i = thing
                            /\ kind = "named" => i = entries[1].thing
    BY <1>4, <1>7
  <2> QED BY <1>5, <1>6, <1>7, <2>1
<1>8. CASE kind = "read"
  <2>1. payload \in Seq(E)
    BY <1>1, SeqDef
  <2> QED BY <1>1, <1>2, <1>4, <1>6, <1>8, <2>1
<1>9. CASE kind = "first"
  <2>1. payload[1] \in E
    BY <1>1, <1>3, <1>9
  <2>2. /\ parsed \in Seq(E) /\ Len(parsed) = 1
        /\ parsed[1] = payload[1]
    <3>1. parsed = SubSeq(payload, 1, 1)
      BY <1>4, <1>9
    <3> QED BY <2>1, <3>1, FirstOf
  <2>3. DOMAIN parsed = 1..1
    BY <2>2, LenProperties
  <2> QED BY <1>2, <1>3, <1>6, <1>9, <2>2, <2>3
<1>10. CASE kind \in {"none", "token"}
  <2>1. parsed = <<>> /\ DOMAIN parsed = {}
    BY <1>4, <1>10
  <2>2. parsed \in Seq(E)
    BY <2>1, EmptySeq
  <2> QED BY <1>6, <1>10, <2>1, <2>2
<1> QED BY <1>7, <1>8, <1>9, <1>10

\* A callback is given a result of its own request, and what was written.
LEMMA CallbackInv ==
  ASSUME IInv, NEW r \in Requests, Callback(r)
  PROVE  IInv'
<1> DEFINE p == parser[r]
           es == answer[r].entries
           ok == answer[r].ok /\ Found(p.kind, es)
           rs == IF ok THEN Parsed(p.kind, p.thing, es) ELSE <<>>
<1>1. /\ answer[r] # None /\ request[r] # None /\ answer[r].ok \in BOOLEAN
      /\ result' = [result EXCEPT ![r] = [ok |-> ok, entries |-> rs]]
      /\ UNCHANGED <<asked, request, parser, answer, stored, written, saw, exited>>
  BY DEF Callback, callVars, engineVars, IInv, AnswerIsConsistent
<1>2. /\ \A q \in Requests \ {r} : result'[q] = result[q]
      /\ result'[r] = [ok |-> ok, entries |-> rs]
      /\ DOMAIN result' = Requests
  BY <1>1 DEF IInv, Domains
<1>3. Fits(p, asked[r].rpc, asked[r].entries) /\ asked[r].entries \in Entries(asked[r].rpc)
  BY <1>1 DEF IInv, AskedIsSent
<1>4. ASSUME ok
      PROVE  /\ rs \in Payloads
             /\ \A k \in DOMAIN rs :
                  /\ MayName(r, rs[k].thing)
                  /\ p.kind \in {"read", "first"} /\ rs[k].thing \notin Players =>
                       rs[k].text = ReadsAs(rs[k].thing, saw[r][k])
  <2>1. PICK n \in Nat : GoodEntries(r, es, n)
    BY <1>1, <1>4 DEF IInv, AnswerIsConsistent
  <2>2. /\ p.kind \in {"echo", "read", "first", "named", "none", "token"}
        /\ p.kind = "echo" => p.thing \in Things
        /\ p.kind = "named" => n = 1
        /\ es \in [1..n -> [thing : Things, field : Fields]]
        /\ Found(p.kind, es)
    BY <1>3, <1>4, <2>1 DEF Fits, GoodEntries
  <2>3. rs = Parsed(p.kind, p.thing, es)
    BY <1>4
  <2> HIDE DEF p, es, rs, ok
  <2>4. /\ rs \in Payloads
        /\ p.kind = "echo" => \A k \in DOMAIN rs : rs[k].thing = p.thing
        /\ p.kind = "named" => \A k \in DOMAIN rs : rs[k].thing = es[1].thing
        /\ p.kind \in {"none", "token"} => DOMAIN rs = {}
        /\ p.kind \in {"read", "first"} => \A k \in DOMAIN rs :
             /\ k \in 1..n
             /\ rs[k] = Entry(es[k].thing, FromProto(es[k].thing, es[k].field))
    <3>1. IsParsed(p.kind, p.thing, n, es, rs)
      BY <2>2, <2>3, ParsedEntries
    <3> QED BY <3>1 DEF IsParsed
  <2>5. CASE p.kind = "echo"
    <3>1. 1 \in DOMAIN asked[r].entries /\ p.thing = asked[r].entries[1].thing
      BY <1>3, <2>5 DEF Fits, Entries
    <3>2. MayName(r, p.thing)
      BY <3>1 DEF MayName, Named, ToSet
    <3> QED BY <2>4, <2>5, <3>2
  <2>6. CASE p.kind = "named"
    <3>1. MayName(r, es[1].thing)
      BY <2>1, <2>2, <2>6 DEF GoodEntries
    <3> QED BY <2>4, <2>6, <3>1
  <2>7. CASE p.kind \in {"read", "first"}
    <3>1. ASSUME NEW k \in DOMAIN rs
          PROVE  /\ MayName(r, rs[k].thing)
                 /\ rs[k].thing \notin Players => rs[k].text = ReadsAs(rs[k].thing, saw[r][k])
      <4>1. /\ k \in 1..n /\ rs[k].thing = es[k].thing
            /\ rs[k].text = FromProto(es[k].thing, es[k].field)
        BY <2>4, <2>7 DEF Entry
      <4> QED BY <2>1, <4>1 DEF GoodEntries, Consistent
    <3> QED BY <2>4, <3>1
  <2>8. CASE p.kind \in {"none", "token"}
    BY <2>4, <2>8
  <2> QED BY <2>2, <2>5, <2>6, <2>7, <2>8
<1>5. ok \in BOOLEAN /\ (~ok => rs = <<>>)
  OBVIOUS
<1> HIDE DEF ok, rs, es
<1>6. TypeOK'
  <2>1. rs \in Payloads
    BY <1>4, <1>5, EmptySeq DEF Payloads
  <2>2. \A q \in Requests : result'[q] # None =>
          result'[q].ok \in BOOLEAN /\ result'[q].entries \in Payloads
    BY <1>2, <1>5, <2>1 DEF IInv, TypeOK
  <2> QED BY <1>1, <2>2 DEF IInv, TypeOK
<1>7. Domains' /\ AskedIsSent' /\ ResultIsAnswered'
  BY <1>1, <1>2 DEF IInv, Domains, AskedIsSent, ResultIsAnswered
<1>8. StoredIsWritten'
  BY <1>1 DEF IInv, StoredIsWritten, Consistent
<1>9. AnswerIsConsistent'
  BY <1>1, AnswerStays DEF IInv, AnswerIsConsistent
<1>10. ResultNamesRequest'
  BY <1>1, <1>2, <1>4 DEF IInv, ResultNamesRequest, Succeeded, MayName
<1>11. ReadsWhatWasWritten'
  BY <1>1, <1>2, <1>4 DEF IInv, ReadsWhatWasWritten, Succeeded, p
<1> QED BY <1>6, <1>7, <1>8, <1>9, <1>10, <1>11 DEF IInv

-----------------------------------------------------------------------------
(* The theorems.                                                           *)

LEMMA InvInit == Init => IInv
<1> SUFFICES ASSUME Init PROVE IInv
  OBVIOUS
<1>1. TypeOK /\ Domains
  BY DEF Init, TypeOK, Domains, Fields
<1>2. AskedIsSent /\ AnswerIsConsistent /\ ResultIsAnswered
  BY DEF Init, AskedIsSent, AnswerIsConsistent, ResultIsAnswered
<1>3. ResultNamesRequest /\ ReadsWhatWasWritten
  BY DEF Init, ResultNamesRequest, ReadsWhatWasWritten, Succeeded
<1>4. StoredIsWritten
  <2>1. ASSUME NEW i \in Things, stored[i] # Unknown
        PROVE  FromProto(i, stored[i]) = ReadsAs(i, written[i])
    <3>1. stored[i] = Absent /\ written[i] = NoText /\ i \in Items \cup ItemTypes
      BY <2>1, ThingsAssumption DEF Init
    <3>2. i \notin Orders /\ i \notin Players /\ NoText \notin Texts
      BY <3>1, ThingsAssumption, JsonAssumption
    <3>3. FromProto(i, Absent) = Printed[EmptyObject]
      BY <3>2 DEF FromProto, GoogleStructToJsonString
    <3>4. ReadsAs(i, NoText) = Printed[EmptyObject]
      BY <3>2 DEF ReadsAs
    <3> QED BY <3>1, <3>3, <3>4
  <2> QED BY <2>1 DEF StoredIsWritten, Consistent
<1> QED BY <1>1, <1>2, <1>3, <1>4 DEF IInv

LEMMA InvStep == IInv /\ [Next]_vars => IInv'
<1> SUFFICES ASSUME IInv, [Next]_vars PROVE IInv'
  OBVIOUS
<1>1. ASSUME NEW r \in Requests, ItemClient(r) PROVE IInv'
  BY <1>1, ItemClientInv
<1>2. ASSUME NEW r \in Requests, ItemTypeClient(r) PROVE IInv'
  BY <1>2, ItemTypeClientInv
<1>3. ASSUME NEW r \in Requests, OtherClients(r) PROVE IInv'
  BY <1>3, OtherClientsInv
<1>4. ASSUME NEW r \in Requests, Engine(r) PROVE IInv'
  BY <1>4, ExecuteInv, FailInv DEF Engine
<1>5. ASSUME NEW r \in Requests, Callback(r) PROVE IInv'
  BY <1>5, CallbackInv
<1>6. ASSUME NEW r \in Requests, UnsupportedToken(r) PROVE IInv'
  BY <1>6, ExitInv DEF UnsupportedToken, callVars, engineVars
<1>7. CASE UNCHANGED vars
  BY <1>7, ExitInv DEF vars, callVars, engineVars, IInv, TypeOK
<1> QED BY <1>1, <1>2, <1>3, <1>4, <1>5, <1>6, <1>7 DEF Next

\* The inductive invariant holds in every reachable state.
THEOREM Invariance == Spec => []IInv
BY InvInit, InvStep, PTL DEF Spec

\* Every message, payload and stored field has its type, whatever is asked.
THEOREM TypeCorrect == Spec => []TypeOK
<1>1. IInv => TypeOK
  BY DEF IInv
<1> QED BY <1>1, Invariance, PTL

\* A result names the thing its own request named, however many requests are
\* in flight and in whatever order they are executed and answered.
THEOREM ResultsBelong == Spec => []ResultNamesRequest
<1>1. IInv => ResultNamesRequest
  BY DEF IInv
<1> QED BY <1>1, Invariance, PTL

\* What is read of a thing is what was last written of it, for any JSON and
\* for lists of any length in one message.
THEOREM ReadsAreWrites == Spec => []ReadsWhatWasWritten
<1>1. IInv => ReadsWhatWasWritten
  BY DEF IInv
<1> QED BY <1>1, Invariance, PTL

=============================================================================
