----------------------------- MODULE ModelCodecs -----------------------------
(***************************************************************************)
(* The model structs (ivi-model.h) and their conversions from and to the   *)
(* messages of the engine (ivi-model.cpp), and the confirmations made of   *)
(* status updates (sendConfirm of the stream clients, ivi-client.cpp).     *)
(*                                                                         *)
(* FromProto initialises an aggregate by position: a list of 6 to 20       *)
(* values, most of them of the type of their neighbours, must follow the   *)
(* order in which the header declares the fields.  A message's field is    *)
(* written with the name of the struct's field it is for, whatever case    *)
(* the accessor has.  Text, numbers, lists and flags are plain values,     *)
(* copied whole.                                                           *)
(***************************************************************************)
EXTENDS Integers, Sequences, SequencesExt, Enums, JsonStruct

CONSTANTS
  Values,    \* contents of a plain field
  Unset,     \* what a plain field that is not set reads as
  States,    \* enumerators
  Messages(_)  \* the messages of a wire type that the engine sends

INT32_MAX == 2147483647

ASSUME CodecAssumption ==
  /\ Unset \in Values \cap States
  /\ States \subseteq Char

VARIABLES
  kind,       \* the struct in question
  received,   \* the engine's message
  struct,     \* what the application has of it
  sent,       \* the message made of that
  reread      \* what the application has when that is read again

vars == <<kind, received, struct, sent, reread>>

-----------------------------------------------------------------------------
(* ivi-model.h: the fields, in the order in which they are declared.       *)

Metadata == <<"name", "description", "image", "properties">>

Item == <<"gameInventoryId", "gameItemTypeId", "dgoodsId", "itemName", "playerId",
  "ownerSidechainAccount", "serialNumber", "currencyBase", "metadataUri", "trackingId",
  "metadata", "createdTimestamp", "updatedTimestamp", "itemState">>

ItemType == <<"gameItemTypeId", "maxSupply", "currentSupply", "issuedSupply", "issuer",
  "issueTimeSpan", "category", "tokenName", "baseUri", "agreementIds", "trackingId",
  "metadata", "createdTimestamp", "updatedTimestamp", "itemTypeState",
  "fungible", "burnable", "transferable", "finalized", "sellable">>

OrderAddress == <<"firstName", "lastName", "addressLine1", "addressLine2", "city", "state",
  "postalCode", "countryName", "countryIsoAlpha2">>

PurchasedItems == <<"gameInventoryIds", "itemName", "gameItemTypeId", "amountPaid",
  "currency", "metadata">>

Order == <<"orderId", "storeId", "buyerPlayerId", "tax", "total", "address", "metadata",
  "createdBy", "requestIp", "environmentId", "createdTimestamp", "bitpayInvoice",
  "paymentProviderId", "orderStatus">>

FinalizeOrderResponse == <<"paymentInstrumentType", "transactionId", "processorResponse",
  "fraudScore", "omniScore", "orderStatus", "success", "scoreIsValid">>

Player == <<"playerId", "email", "displayName", "sidechainAccountName", "trackingId",
  "createdTimestamp", "playerState">>

PlayerStatusUpdate == <<"playerId", "trackingId", "playerState">>

ItemStatusUpdate == <<"gameInventoryId", "gameItemTypeId", "playerId", "metadataUri",
  "trackingId", "dgoodsId", "serialNumber", "itemState">>

ItemTypeStatusUpdate == <<"gameItemTypeId", "baseUri", "trackingId", "currentSupply",
  "issuedSupply", "issueTimeSpan", "itemTypeState">>

OrderStatusUpdate == <<"orderId", "orderState">>

-----------------------------------------------------------------------------
(* The messages of the engine, external: the contents of each field.       *)

Plain(fields) == [f \in ToSet(fields) |-> Values]

\* A field that is not set: no submessage, or the zero of its type
Blank(wire) == [f \in DOMAIN wire |-> IF Absent \in wire[f] THEN Absent ELSE Unset]

\* The accessor of a submessage gives the default instance where there is none
Read(message, wire) == IF message = Absent THEN Blank(wire) ELSE message

Json == Objects \cup {Absent}
MetadataWire == [Plain(Metadata) EXCEPT !.properties = Json]
AddressWire == Plain(OrderAddress)
FraudScoreWire == Plain(<<"fraudScore", "omniScore">>)

\* Bitpay's payment data has an invoice; other providers' data is not read
OrderWire ==
  [f \in (ToSet(Order) \ {"bitpayInvoice"}) \cup {"bitpay"} |->
    CASE f = "address" -> {Absent} \cup Messages(AddressWire)
      [] f = "metadata" -> Json
      [] f = "bitpay" -> {Absent} \cup [invoice : Json]
      [] f \in {"paymentProviderId", "orderStatus"} -> States
      [] OTHER -> Values]

FinalizeOrderWire ==
  [f \in ToSet(FinalizeOrderResponse) \ {"omniScore", "scoreIsValid"} |->
    CASE f = "fraudScore" -> {Absent} \cup Messages(FraudScoreWire)
      [] f = "orderStatus" -> States
      [] OTHER -> Values]

WithMetadata(fields, state) ==
  [f \in ToSet(fields) |->
    CASE f = "metadata" -> {Absent} \cup Messages(MetadataWire)
      [] f = state -> States
      [] OTHER -> Values]

Wires == [
  metadata |-> MetadataWire,
  item |-> WithMetadata(Item, "itemState"),
  itemType |-> WithMetadata(ItemType, "itemTypeState"),
  address |-> AddressWire,
  purchase |-> WithMetadata(PurchasedItems, "none"),
  order |-> OrderWire,
  finalize |-> FinalizeOrderWire,
  player |-> WithMetadata(Player, "playerState"),
  playerUpdate |-> WithMetadata(PlayerStatusUpdate, "playerState"),
  itemUpdate |-> WithMetadata(ItemStatusUpdate, "itemState"),
  itemTypeUpdate |-> WithMetadata(ItemTypeStatusUpdate, "itemTypeState"),
  orderUpdate |-> WithMetadata(OrderStatusUpdate, "orderState")]

IsMessage(m, wire) ==
  /\ m = [f \in DOMAIN wire |-> m[f]]
  /\ \A f \in DOMAIN wire : m[f] \in wire[f]

\* A submessage that is not set is no message
ASSUME MessagesAssumption ==
  /\ \A k \in DOMAIN Wires : \A m \in Messages(Wires[k]) : IsMessage(m, Wires[k])
  /\ \A m \in Messages(FraudScoreWire) : IsMessage(m, FraudScoreWire)
  /\ Absent \notin [ToSet(Metadata) -> Values \cup Json]
  /\ Absent \notin [ToSet(OrderAddress) -> Values] \cup [invoice : Objects]

-----------------------------------------------------------------------------
(* FromProto.                                                              *)

\* The initialisation of an aggregate: the i-th value is for the i-th field
Aggregate(fields, values) ==
  [f \in ToSet(fields) |-> values[CHOOSE i \in DOMAIN fields : fields[i] = f]]

MetadataFromProto(message) ==
  LET m == Read(message, MetadataWire)
  IN  Aggregate(Metadata,
        <<m.name, m.description, m.image, GoogleStructToJsonString(m.properties)>>)

ItemFromProto(m) == Aggregate(Item,
  <<m.gameInventoryId, m.gameItemTypeId, m.dgoodsId, m.itemName, m.playerId,
    m.ownerSidechainAccount, m.serialNumber, m.currencyBase, m.metadataUri, m.trackingId,
    MetadataFromProto(m.metadata), m.createdTimestamp, m.updatedTimestamp,
    ECast(m.itemState)>>)

ItemTypeFromProto(m) == Aggregate(ItemType,
  <<m.gameItemTypeId, m.maxSupply, m.currentSupply, m.issuedSupply, m.issuer,
    m.issueTimeSpan, m.category, m.tokenName, m.baseUri, m.agreementIds, m.trackingId,
    MetadataFromProto(m.metadata), m.createdTimestamp, m.updatedTimestamp,
    ECast(m.itemTypeState), m.fungible, m.burnable, m.transferable, m.finalized,
    m.sellable>>)

AddressFromProto(message) ==
  LET m == Read(message, AddressWire)
  IN  Aggregate(OrderAddress,
        <<m.firstName, m.lastName, m.addressLine1, m.addressLine2, m.city, m.state,
          m.postalCode, m.countryName, m.countryIsoAlpha2>>)

PurchasedItemsFromProto(m) == Aggregate(PurchasedItems,
  <<m.gameInventoryIds, m.itemName, m.gameItemTypeId, m.amountPaid, m.currency,
    MetadataFromProto(m.metadata)>>)

\* No metadata of an order, and no invoice, is not the object {}
OrderFromProto(m) == Aggregate(Order,
  <<m.orderId, m.storeId, m.buyerPlayerId, m.tax, m.total, AddressFromProto(m.address),
    IF m.metadata # Absent THEN GoogleStructToJsonString(m.metadata) ELSE NoText,
    m.createdBy, m.requestIp, m.environmentId, m.createdTimestamp,
    IF m.bitpay # Absent THEN GoogleStructToJsonString(m.bitpay.invoice) ELSE NoText,
    ECast(m.paymentProviderId), ECast(m.orderStatus)>>)

\* Mutant: a score that is not there is read like any other field
FinalizeFromProtoUnasked(m) ==
  LET score == Read(m.fraudScore, FraudScoreWire)
  IN  Aggregate(FinalizeOrderResponse,
        <<m.paymentInstrumentType, m.transactionId, m.processorResponse,
          score.fraudScore, score.omniScore,
          ECast(m.orderStatus), m.success, m.fraudScore # Absent>>)

FinalizeFromProto(m) ==
  LET has_fraud_score == m.fraudScore # Absent
  IN  Aggregate(FinalizeOrderResponse,
        <<m.paymentInstrumentType, m.transactionId, m.processorResponse,
          IF has_fraud_score THEN m.fraudScore.fraudScore ELSE INT32_MAX,
          IF has_fraud_score THEN m.fraudScore.omniScore ELSE Unset,
          ECast(m.orderStatus), m.success, has_fraud_score>>)

PlayerFromProto(m) == Aggregate(Player,
  <<m.playerId, m.email, m.displayName, m.sidechainAccountName, m.trackingId,
    m.createdTimestamp, ECast(m.playerState)>>)

PlayerStatusFromProto(m) == Aggregate(PlayerStatusUpdate,
  <<m.playerId, m.trackingId, ECast(m.playerState)>>)

\* Mutant: two ids initialised in the other order
ItemStatusFromProtoSwapped(m) == Aggregate(ItemStatusUpdate,
  <<m.gameInventoryId, m.playerId, m.gameItemTypeId, m.metadataUri, m.trackingId,
    m.dgoodsId, m.serialNumber, ECast(m.itemState)>>)

ItemStatusFromProto(m) == Aggregate(ItemStatusUpdate,
  <<m.gameInventoryId, m.gameItemTypeId, m.playerId, m.metadataUri, m.trackingId,
    m.dgoodsId, m.serialNumber, ECast(m.itemState)>>)

ItemTypeStatusFromProto(m) == Aggregate(ItemTypeStatusUpdate,
  <<m.gameItemTypeId, m.baseUri, m.trackingId, m.currentSupply, m.issuedSupply,
    m.issueTimeSpan, ECast(m.itemTypeState)>>)

OrderStatusFromProto(m) == Aggregate(OrderStatusUpdate, <<m.orderId, ECast(m.orderState)>>)

FromProto(k, m) ==
  CASE k = "metadata" -> MetadataFromProto(m)
    [] k = "item" -> ItemFromProto(m)
    [] k = "itemType" -> ItemTypeFromProto(m)
    [] k = "address" -> AddressFromProto(m)
    [] k = "purchase" -> PurchasedItemsFromProto(m)
    [] k = "order" -> OrderFromProto(m)
    [] k = "finalize" -> FinalizeFromProto(m)
    [] k = "player" -> PlayerFromProto(m)
    [] k = "playerUpdate" -> PlayerStatusFromProto(m)
    [] k = "itemUpdate" -> ItemStatusFromProto(m)
    [] k = "itemTypeUpdate" -> ItemTypeStatusFromProto(m)
    [] k = "orderUpdate" -> OrderStatusFromProto(m)

-----------------------------------------------------------------------------
(* ToProto: a message is made empty, and its fields are set by name.       *)

\* Each field of the message is set from the struct's field of its name
Set(s, fields) == [f \in ToSet(fields) |-> s[f]]

MetadataToProto(s) ==
  [Set(s, Metadata) EXCEPT !.properties = JsonStringToGoogleStruct(@)]

ItemToProto(s) ==
  [Set(s, Item) EXCEPT !.metadata = MetadataToProto(@), !.itemState = ECast(@)]

ItemTypeToProto(s) ==
  [Set(s, ItemType) EXCEPT !.metadata = MetadataToProto(@), !.itemTypeState = ECast(@)]

AddressToProto(s) == Set(s, OrderAddress)

PurchasedItemsToProto(s) ==
  [Set(s, PurchasedItems) EXCEPT !.metadata = MetadataToProto(@)]

\* Mutant: the invoice is set as the metadata of an item is, text or no text
OrderToProtoInvoiced(s) ==
  [f \in DOMAIN OrderWire |->
    CASE f = "address" -> AddressToProto(s.address)
      [] f = "metadata" ->
           IF s.metadata # NoText THEN JsonStringToGoogleStruct(s.metadata) ELSE Absent
      [] f = "bitpay" -> [invoice |-> JsonStringToGoogleStruct(s.bitpayInvoice)]
      [] f \in {"paymentProviderId", "orderStatus"} -> ECast(s[f])
      [] OTHER -> s[f]]

\* An empty text sets neither the metadata nor an invoice
OrderToProto(s) ==
  [f \in DOMAIN OrderWire |->
    CASE f = "address" -> AddressToProto(s.address)
      [] f = "metadata" ->
           IF s.metadata # NoText THEN JsonStringToGoogleStruct(s.metadata) ELSE Absent
      [] f = "bitpay" ->
           IF s.bitpayInvoice # NoText
             THEN [invoice |-> JsonStringToGoogleStruct(s.bitpayInvoice)] ELSE Absent
      [] f \in {"paymentProviderId", "orderStatus"} -> ECast(s[f])
      [] OTHER -> s[f]]

PlayerToProto(s) == [Set(s, Player) EXCEPT !.playerState = ECast(@)]

ToProto(k, s) ==
  CASE k = "metadata" -> MetadataToProto(s)
    [] k = "item" -> ItemToProto(s)
    [] k = "itemType" -> ItemTypeToProto(s)
    [] k = "address" -> AddressToProto(s)
    [] k = "purchase" -> PurchasedItemsToProto(s)
    [] k = "order" -> OrderToProto(s)
    [] k = "player" -> PlayerToProto(s)

Convertible == {"metadata", "item", "itemType", "address", "purchase", "order", "player"}

-----------------------------------------------------------------------------
(* sendConfirm: the fields of the update in the buffer, by position.       *)

\* Mutant: the confirmation of an item names its type
ConfirmedFieldsOfType == [
  playerUpdate |-> <<"playerId", "trackingId", "playerState">>,
  itemUpdate |-> <<"gameItemTypeId", "trackingId", "itemState">>,
  itemTypeUpdate |-> <<"gameItemTypeId", "trackingId", "itemTypeState">>,
  orderUpdate |-> <<"orderId", "orderState">>]

\* What the Confirm of each stream client is given of CurrentMessage()
ConfirmedFields == [
  playerUpdate |-> <<"playerId", "trackingId", "playerState">>,
  itemUpdate |-> <<"gameInventoryId", "trackingId", "itemState">>,
  itemTypeUpdate |-> <<"gameItemTypeId", "trackingId", "itemTypeState">>,
  orderUpdate |-> <<"orderId", "orderState">>]

\* What its parameters are called, and set in the request as
ConfirmRequest == [
  playerUpdate |-> <<"playerId", "trackingId", "playerState">>,
  itemUpdate |-> <<"gameInventoryId", "trackingId", "itemState">>,
  itemTypeUpdate |-> <<"gameItemTypeId", "trackingId", "itemTypeState">>,
  orderUpdate |-> <<"orderId", "orderState">>]

\* The last argument is a state, cast on its way in and out
Confirmation(k, m) ==
  LET given == ConfirmedFields[k]
  IN  Aggregate(ConfirmRequest[k],
        [i \in DOMAIN given |-> IF i = Len(given) THEN ECast(m[given[i]]) ELSE m[given[i]]])

-----------------------------------------------------------------------------
Nothing == [none |-> Unset]

Init ==
  /\ kind \in DOMAIN Wires
  /\ received \in Messages(Wires[kind])
  /\ struct = Nothing
  /\ sent = Nothing
  /\ reread = Nothing

\* A response parser, or OnCallback of a stream client
Receive ==
  /\ struct = Nothing
  /\ struct' = FromProto(kind, received)
  /\ UNCHANGED <<kind, received, sent, reread>>

\* The application writes its own JSON, or none, where there was some
Edit ==
  /\ struct # Nothing /\ sent = Nothing
  /\ \E text \in Texts \cup {NoText} :
       \/ kind \in {"item", "itemType", "purchase"}
            /\ struct' = [struct EXCEPT !.metadata.properties = text]
       \/ kind = "order" /\ struct' = [struct EXCEPT !.metadata = text]
       \/ kind = "order" /\ struct' = [struct EXCEPT !.bitpayInvoice = text]
  /\ UNCHANGED <<kind, received, sent, reread>>

\* By a request, or by an application that calls ToProto
Send ==
  /\ kind \in Convertible
  /\ struct # Nothing /\ sent = Nothing
  /\ sent' = ToProto(kind, struct)
  /\ UNCHANGED <<kind, received, struct, reread>>

\* After OnCallback, of the message and not of the struct
SendConfirm ==
  /\ kind \in DOMAIN ConfirmedFields
  /\ struct # Nothing /\ sent = Nothing
  /\ sent' = Confirmation(kind, received)
  /\ UNCHANGED <<kind, received, struct, reread>>

\* The same message is read again: from the engine, or by the application
ReceiveBack ==
  /\ kind \in Convertible
  /\ sent # Nothing /\ reread = Nothing
  /\ reread' = FromProto(kind, sent)
  /\ UNCHANGED <<kind, received, struct, sent>>

Next == Receive \/ Edit \/ Send \/ SendConfirm \/ ReceiveBack

Spec == Init /\ [][Next]_vars

-----------------------------------------------------------------------------
(* Properties.                                                             *)

\* The fields of a struct that hold JSON text: they change form on the way
JsonFields(k) ==
  CASE k = "metadata" -> {"properties"}
    [] k = "order" -> {"metadata", "bitpayInvoice"}
    [] OTHER -> {}

Submessages(k) ==
  CASE k = "order" -> {"address"}
    [] k \in {"item", "itemType", "purchase"} -> {"metadata"}
    [] k = "finalize" -> {"fraudScore"}
    [] OTHER -> {}

SameFields(s, m, fields) == \A f \in fields : s[f] = m[f]

KeepPlace(k, s, m) ==
  /\ SameFields(s, m, (DOMAIN s \cap DOMAIN m) \ (JsonFields(k) \cup Submessages(k)))
  /\ k = "order" => SameFields(s.address, Read(m.address, AddressWire), ToSet(OrderAddress))
  /\ k \in {"item", "itemType", "purchase"} =>
       SameFields(s.metadata, Read(m.metadata, MetadataWire), ToSet(Metadata) \ {"properties"})
  /\ k = "finalize" /\ s.scoreIsValid =>
       SameFields(s, m.fraudScore, {"fraudScore", "omniScore"})

\* Every field of a struct holds what the message's field of that name said,
\* though the struct is filled by position: no two fields of one type have
\* changed places between ivi-model.h and ivi-model.cpp.
FieldsKeepTheirPlace == struct # Nothing => KeepPlace(kind, struct, received)

\* What a struct says of a score: the engine's two values, INT32_MAX among
\* them, or that there are none and the placeholders of both
ShowsScore(s, score) ==
  IF score # Absent
  THEN s.scoreIsValid /\ SameFields(s, score, {"fraudScore", "omniScore"})
  ELSE ~s.scoreIsValid /\ s.fraudScore = INT32_MAX /\ s.omniScore = Unset

\* An application that checks scoreIsValid first, as ivi-model.h tells it to for
\* fraudScore and omniScore, takes both from the engine and misses none; one
\* that does not sees the same placeholders for every score that is not there,
\* INT32_MAX and an empty text, and not the number of an unset field.
ScoreIsTheEngines ==
  kind = "finalize" /\ struct # Nothing => ShowsScore(struct, received.fraudScore)

\* The text that a text comes back as: an empty one is {} in an item's
\* metadata, and stays empty in an order
Canonical(text) == IF text = NoText THEN NoText ELSE Printed[Denotes[text]]
CanonicalObject(text) == Printed[JsonStringToGoogleStruct(text)]

Expected(k, s) ==
  CASE k = "metadata" -> [s EXCEPT !.properties = CanonicalObject(@)]
    [] k = "order" -> [s EXCEPT !.metadata = Canonical(@), !.bitpayInvoice = Canonical(@)]
    [] k \in {"item", "itemType", "purchase"} ->
         [s EXCEPT !.metadata.properties = CanonicalObject(@)]
    [] OTHER -> s

\* What a struct's ToProto makes reads back as that struct, field by field, JSON
\* up to its spelling: ToProto forgets no field and sets none that FromProto
\* would take for content (an order without invoice stays without).  Requests
\* send metadata, addresses and purchased items; an application may call the
\* ToProto of the other structs.
RoundTrip == reread # Nothing => reread = Expected(kind, struct)

\* A confirmation says of the update's thing what the update said: each Confirm
\* is given fields of the message by position, two of them texts.
ConfirmationNamesUpdate ==
  kind \in DOMAIN ConfirmRequest /\ sent # Nothing =>
    SameFields(sent, received, DOMAIN sent)
=============================================================================
