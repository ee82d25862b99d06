-------------------------- MODULE ModelCodecsProofs --------------------------
(***************************************************************************)
(* The conversions keep every field of every message that the engine may   *)
(* send, whatever the fields hold.                                         *)
(***************************************************************************)
EXTENDS ModelCodecs, TLAPS

-----------------------------------------------------------------------------
(* The structs, filled by position, read by name.                          *)

\* A message's fields, but for those that change on the way
Named(fields, m, changed) ==
  [f \in ToSet(fields) |-> IF f \in DOMAIN changed THEN changed[f] ELSE m[f]]

\* An aggregate whose values are each of the field declared at its place is
\* that of the fields' names.
LEMMA AggregateByName ==
  ASSUME NEW fields, NEW values, NEW m, NEW changed,
         \A i \in DOMAIN fields :
           values[i] = IF fields[i] \in DOMAIN changed THEN changed[fields[i]] ELSE m[fields[i]]
  PROVE  Aggregate(fields, values) = Named(fields, m, changed)
<1> DEFINE at(f) == CHOOSE i \in DOMAIN fields : fields[i] = f
<1>1. ASSUME NEW f \in ToSet(fields)
      PROVE  at(f) \in DOMAIN fields /\ fields[at(f)] = f
  BY <1>1 DEF ToSet
<1>2. ASSUME NEW f \in ToSet(fields)
      PROVE  values[at(f)] = IF f \in DOMAIN changed THEN changed[f] ELSE m[f]
  BY <1>1
<1> QED BY <1>2 DEF Aggregate, Named

LEMMA MetadataByName ==
  ASSUME NEW message, NEW m, m = Read(message, MetadataWire)
  PROVE  MetadataFromProto(message) =
           Named(Metadata, m, [properties |-> GoogleStructToJsonString(m.properties)])
BY AggregateByName DEF MetadataFromProto, Metadata

LEMMA AddressByName ==
  ASSUME NEW message, NEW m, m = Read(message, AddressWire)
  PROVE  AddressFromProto(message) = Named(OrderAddress, m, <<>>)
BY AggregateByName DEF AddressFromProto, OrderAddress

LEMMA ItemByName ==
  ASSUME NEW m
  PROVE  ItemFromProto(m) = Named(Item, m, 
           [metadata |-> MetadataFromProto(m.metadata), itemState |-> ECast(m.itemState)])
BY AggregateByName DEF ItemFromProto, Item

LEMMA ItemTypeByName ==
  ASSUME NEW m
  PROVE  ItemTypeFromProto(m) = Named(ItemType, m, 
           [metadata |-> MetadataFromProto(m.metadata), itemTypeState |-> ECast(m.itemTypeState)])
BY AggregateByName DEF ItemTypeFromProto, ItemType

LEMMA PurchaseByName ==
  ASSUME NEW m
  PROVE  PurchasedItemsFromProto(m) = Named(PurchasedItems, m, 
           [metadata |-> MetadataFromProto(m.metadata)])
BY AggregateByName DEF PurchasedItemsFromProto, PurchasedItems

LEMMA OrderByName ==
  ASSUME NEW m
  PROVE  OrderFromProto(m) = Named(Order, m,
           [address |-> AddressFromProto(m.address),
            metadata |-> IF m.metadata # Absent
                           THEN GoogleStructToJsonString(m.metadata) ELSE NoText,
            bitpayInvoice |-> IF m.bitpay # Absent
                                THEN GoogleStructToJsonString(m.bitpay.invoice) ELSE NoText,
            paymentProviderId |-> ECast(m.paymentProviderId),
            orderStatus |-> ECast(m.orderStatus)])
BY AggregateByName DEF OrderFromProto, Order

LEMMA FinalizeByName ==
  ASSUME NEW m
  PROVE  FinalizeFromProto(m) = Named(FinalizeOrderResponse, m,
           [fraudScore |-> IF m.fraudScore # Absent THEN m.fraudScore.fraudScore ELSE INT32_MAX,
            omniScore |-> IF m.fraudScore # Absent THEN m.fraudScore.omniScore ELSE Unset,
            orderStatus |-> ECast(m.orderStatus),
            scoreIsValid |-> m.fraudScore # Absent])
BY AggregateByName DEF FinalizeFromProto, FinalizeOrderResponse

LEMMA PlayerByName ==
  ASSUME NEW m
  PROVE  PlayerFromProto(m) = Named(Player, m, [playerState |-> ECast(m.playerState)])
BY AggregateByName DEF PlayerFromProto, Player

LEMMA PlayerStatusByName ==
  ASSUME NEW m
  PROVE  PlayerStatusFromProto(m) = Named(PlayerStatusUpdate, m, 
           [playerState |-> ECast(m.playerState)])
BY AggregateByName DEF PlayerStatusFromProto, PlayerStatusUpdate

LEMMA ItemStatusByName ==
  ASSUME NEW m
  PROVE  ItemStatusFromProto(m) = Named(ItemStatusUpdate, m, 
           [itemState |-> ECast(m.itemState)])
BY AggregateByName DEF ItemStatusFromProto, ItemStatusUpdate

LEMMA ItemTypeStatusByName ==
  ASSUME NEW m
  PROVE  ItemTypeStatusFromProto(m) = Named(ItemTypeStatusUpdate, m, 
           [itemTypeState |-> ECast(m.itemTypeState)])
BY AggregateByName DEF ItemTypeStatusFromProto, ItemTypeStatusUpdate

LEMMA OrderStatusByName ==
  ASSUME NEW m
  PROVE  OrderStatusFromProto(m) = Named(OrderStatusUpdate, m, 
           [orderState |-> ECast(m.orderState)])
BY AggregateByName DEF OrderStatusFromProto, OrderStatusUpdate

-----------------------------------------------------------------------------
(* The fields that do change.                                              *)

\* The cast keeps exactly the values a char holds, the known states among them.
LEMMA CastKeeps ==
  ASSUME NEW state \in Char
  PROVE  ECast(state) = state
<1>1. (state + 128) % 256 = state + 128
  BY DEF Char
<1> QED BY <1>1 DEF ECast, Char

\* Both directions of the JSON conversions, and the text that comes back.
LEMMA JsonConverts ==
  /\ \A field \in Json : GoogleStructToJsonString(field) \in Texts
  /\ \A text \in Texts \cup {NoText} :
       /\ JsonStringToGoogleStruct(text) \in Objects
       /\ GoogleStructToJsonString(JsonStringToGoogleStruct(text)) = CanonicalObject(text)
  /\ \A text \in Texts : Canonical(text) = CanonicalObject(text)
BY JsonAssumption DEF Json, GoogleStructToJsonString, JsonStringToGoogleStruct,
  CanonicalObject, Canonical

\* What the wire says of each kind of field.
LEMMA WithMetadataAt ==
  ASSUME NEW fields, NEW state, state # "metadata", NEW m,
         IsMessage(m, WithMetadata(fields, state))
  PROVE  /\ DOMAIN m = ToSet(fields)
         /\ "metadata" \in ToSet(fields) => m.metadata \in {Absent} \cup Messages(MetadataWire)
         /\ state \in ToSet(fields) => m[state] \in States
<1> DEFINE wire == WithMetadata(fields, state)
<1>1. ASSUME NEW f \in ToSet(fields)
      PROVE  wire[f] = CASE f = "metadata" -> {Absent} \cup Messages(MetadataWire)
                         [] f = state -> States
                         [] OTHER -> Values
  BY <1>1, Zenon DEF WithMetadata
<1>2. "metadata" \in ToSet(fields) => wire["metadata"] = {Absent} \cup Messages(MetadataWire)
  BY <1>1, Zenon
<1>3. state \in ToSet(fields) => wire[state] = States
  BY <1>1, Zenon
<1>4. DOMAIN wire = ToSet(fields)
  BY DEF WithMetadata
<1> QED BY <1>2, <1>3, <1>4 DEF IsMessage

LEMMA OrderWireAt ==
  ASSUME NEW m, IsMessage(m, OrderWire)
  PROVE  /\ DOMAIN m = (ToSet(Order) \ {"bitpayInvoice"}) \cup {"bitpay"}
         /\ m.address \in {Absent} \cup Messages(AddressWire)
         /\ m.metadata \in Json
         /\ m.bitpay \in {Absent} \cup [invoice : Json]
         /\ m.paymentProviderId \in States /\ m.orderStatus \in States
<1> DEFINE fields == (ToSet(Order) \ {"bitpayInvoice"}) \cup {"bitpay"}
<1>1. {"address", "metadata", "bitpay", "paymentProviderId", "orderStatus"} \subseteq fields
  <2>1. \A i \in 1..14 : Order[i] \in ToSet(Order)
    BY DEF Order, ToSet
  <2> QED BY <2>1, Order[6] = "address", Order[7] = "metadata",
             Order[13] = "paymentProviderId", Order[14] = "orderStatus" DEF Order
<1>2. ASSUME NEW f \in fields
      PROVE  OrderWire[f] = CASE f = "address" -> {Absent} \cup Messages(AddressWire)
                              [] f = "metadata" -> Json
                              [] f = "bitpay" -> {Absent} \cup [invoice : Json]
                              [] f \in {"paymentProviderId", "orderStatus"} -> States
                              [] OTHER -> Values
  BY <1>2, Zenon DEF OrderWire
<1>3. /\ OrderWire["address"] = {Absent} \cup Messages(AddressWire)
      /\ OrderWire["metadata"] = Json
      /\ OrderWire["bitpay"] = {Absent} \cup [invoice : Json]
      /\ OrderWire["paymentProviderId"] = States
      /\ OrderWire["orderStatus"] = States
  BY <1>1, <1>2, Zenon
<1>4. DOMAIN OrderWire = fields
  BY DEF OrderWire
<1> QED BY <1>1, <1>3, <1>4 DEF IsMessage

LEMMA FinalizeWireAt ==
  ASSUME NEW m, IsMessage(m, FinalizeOrderWire)
  PROVE  /\ DOMAIN m = ToSet(FinalizeOrderResponse) \ {"omniScore", "scoreIsValid"}
         /\ m.fraudScore \in {Absent} \cup Messages(FraudScoreWire)
         /\ m.orderStatus \in States
<1> DEFINE fields == ToSet(FinalizeOrderResponse) \ {"omniScore", "scoreIsValid"}
<1>1. "fraudScore" \in fields /\ "orderStatus" \in fields
  BY DEF FinalizeOrderResponse, ToSet
<1>2. ASSUME NEW f \in fields
      PROVE  FinalizeOrderWire[f] = CASE f = "fraudScore" -> {Absent} \cup Messages(FraudScoreWire)
                                      [] f = "orderStatus" -> States
                                      [] OTHER -> Values
  BY <1>2, Zenon DEF FinalizeOrderWire
<1>3. /\ FinalizeOrderWire["fraudScore"] = {Absent} \cup Messages(FraudScoreWire)
      /\ FinalizeOrderWire["orderStatus"] = States
  BY <1>1, <1>2, Zenon
<1>4. DOMAIN FinalizeOrderWire = fields
  BY DEF FinalizeOrderWire
<1> QED BY <1>1, <1>3, <1>4 DEF IsMessage

-----------------------------------------------------------------------------
(* What is received.                                                       *)

LEMMA Members ==
  /\ ToSet(Metadata) = {"name", "description", "image", "properties"}
  /\ {"metadata", "itemState"} \subseteq ToSet(Item)
  /\ {"metadata", "itemTypeState"} \subseteq ToSet(ItemType)
  /\ "metadata" \in ToSet(PurchasedItems)
  /\ "playerState" \in ToSet(Player)
  /\ "playerState" \in ToSet(PlayerStatusUpdate)
  /\ "itemState" \in ToSet(ItemStatusUpdate)
  /\ "itemTypeState" \in ToSet(ItemTypeStatusUpdate)
  /\ "orderState" \in ToSet(OrderStatusUpdate)
<1>1. ToSet(Metadata) = {"name", "description", "image", "properties"}
  BY DEF ToSet, Metadata
<1>2. {"metadata", "itemState"} \subseteq ToSet(Item)
  BY Item[11] = "metadata", Item[14] = "itemState" DEF ToSet, Item
<1>3. {"metadata", "itemTypeState"} \subseteq ToSet(ItemType)
  BY ItemType[12] = "metadata", ItemType[15] = "itemTypeState" DEF ToSet, ItemType
<1>4. "metadata" \in ToSet(PurchasedItems)
  BY DEF ToSet, PurchasedItems
<1>5. "playerState" \in ToSet(Player) /\ "playerState" \in ToSet(PlayerStatusUpdate)
  BY DEF ToSet, Player, PlayerStatusUpdate
<1>6. /\ "itemState" \in ToSet(ItemStatusUpdate)
      /\ "itemTypeState" \in ToSet(ItemTypeStatusUpdate)
      /\ "orderState" \in ToSet(OrderStatusUpdate)
  BY DEF ToSet, ItemStatusUpdate, ItemTypeStatusUpdate, OrderStatusUpdate
<1> QED BY <1>1, <1>2, <1>3, <1>4, <1>5, <1>6

IsMetadata(s) ==
  /\ s = [f \in ToSet(Metadata) |-> s[f]]
  /\ \A f \in ToSet(Metadata) \ {"properties"} : s[f] \in Values
  /\ s.properties \in Texts \cup {NoText}

\* A message's metadata, set or not, keeps its texts and has JSON.
LEMMA ReadMetadata ==
  ASSUME NEW message \in {Absent} \cup Messages(MetadataWire)
  PROVE  /\ IsMetadata(MetadataFromProto(message))
         /\ MetadataFromProto(message).properties \in Texts
         /\ SameFields(MetadataFromProto(message), Read(message, MetadataWire),
                       ToSet(Metadata) \ {"properties"})
<1> DEFINE m == Read(message, MetadataWire)
           s == MetadataFromProto(message)
<1>1. /\ DOMAIN MetadataWire = ToSet(Metadata)
      /\ MetadataWire["properties"] = Json
      /\ \A f \in ToSet(Metadata) \ {"properties"} : MetadataWire[f] = Values
  BY Members DEF MetadataWire, Plain
<1>2. message # Absent => IsMessage(message, MetadataWire)
  BY MessagesAssumption DEF Wires
<1>3. /\ m.properties \in Json
      /\ \A f \in ToSet(Metadata) \ {"properties"} : m[f] \in Values
  <2>1. CASE message = Absent
    BY <1>1, <2>1, Members, CodecAssumption DEF Read, Blank, Json
  <2>2. CASE message # Absent
    BY <1>1, <1>2, <2>2, Members DEF Read, IsMessage
  <2> QED BY <2>1, <2>2
<1>4. s = Named(Metadata, m, [properties |-> GoogleStructToJsonString(m.properties)])
  BY MetadataByName
<1> HIDE DEF m, s
<1>5. /\ s = [f \in ToSet(Metadata) |-> s[f]]
      /\ s.properties = GoogleStructToJsonString(m.properties)
      /\ \A f \in ToSet(Metadata) \ {"properties"} : s[f] = m[f]
  BY <1>4, Members DEF Named
<1> QED BY <1>3, <1>5, JsonConverts DEF IsMetadata, SameFields, m, s

\* So does its address.
LEMMA ReadAddress ==
  ASSUME NEW message \in {Absent} \cup Messages(AddressWire)
  PROVE  /\ AddressFromProto(message) \in [ToSet(OrderAddress) -> Values]
         /\ SameFields(AddressFromProto(message), Read(message, AddressWire), ToSet(OrderAddress))
<1> DEFINE m == Read(message, AddressWire)
           s == AddressFromProto(message)
<1>1. AddressWire = [f \in ToSet(OrderAddress) |-> Values]
  BY DEF AddressWire, Plain
<1>2. message # Absent => IsMessage(message, AddressWire)
  BY MessagesAssumption DEF Wires
<1>3. \A f \in ToSet(OrderAddress) : m[f] \in Values
  BY <1>1, <1>2, CodecAssumption DEF Read, Blank, IsMessage
<1>4. s = Named(OrderAddress, m, <<>>)
  BY AddressByName
<1> HIDE DEF m, s
<1>5. s = [f \in ToSet(OrderAddress) |-> m[f]]
  BY <1>4 DEF Named
<1> QED BY <1>3, <1>5 DEF SameFields, m, s

\* Of each struct, the fields and those that hold an enumerator.
Declared == [
  metadata |-> Metadata, item |-> Item, itemType |-> ItemType, address |-> OrderAddress,
  purchase |-> PurchasedItems, order |-> Order, finalize |-> FinalizeOrderResponse,
  player |-> Player, playerUpdate |-> PlayerStatusUpdate, itemUpdate |-> ItemStatusUpdate,
  itemTypeUpdate |-> ItemTypeStatusUpdate, orderUpdate |-> OrderStatusUpdate]

\* What the application may hold of each kind: what FromProto makes, and its edits
WellFormed(k, s) ==
  /\ s = [f \in ToSet(Declared[k]) |-> s[f]]
  /\ k = "metadata" => IsMetadata(s)
  /\ k = "address" => s \in [ToSet(OrderAddress) -> Values]
  /\ k \in {"item", "itemType", "purchase"} => IsMetadata(s.metadata)
  /\ k = "item" => s.itemState \in Char
  /\ k = "itemType" => s.itemTypeState \in Char
  /\ k = "player" => s.playerState \in Char
  /\ k = "order" => /\ s.address \in [ToSet(OrderAddress) -> Values]
                    /\ s.metadata \in Texts \cup {NoText}
                    /\ s.bitpayInvoice \in Texts \cup {NoText}
                    /\ s.paymentProviderId \in Char /\ s.orderStatus \in Char

Received(k, m) ==
  /\ WellFormed(k, FromProto(k, m))
  /\ KeepPlace(k, FromProto(k, m), m)

LEMMA FromProtoOf ==
  ASSUME NEW m
  PROVE  /\ FromProto("metadata", m) = MetadataFromProto(m)
         /\ FromProto("item", m) = ItemFromProto(m)
         /\ FromProto("itemType", m) = ItemTypeFromProto(m)
         /\ FromProto("address", m) = AddressFromProto(m)
         /\ FromProto("purchase", m) = PurchasedItemsFromProto(m)
         /\ FromProto("order", m) = OrderFromProto(m)
         /\ FromProto("finalize", m) = FinalizeFromProto(m)
         /\ FromProto("player", m) = PlayerFromProto(m)
         /\ FromProto("playerUpdate", m) = PlayerStatusFromProto(m)
         /\ FromProto("itemUpdate", m) = ItemStatusFromProto(m)
         /\ FromProto("itemTypeUpdate", m) = ItemTypeStatusFromProto(m)
         /\ FromProto("orderUpdate", m) = OrderStatusFromProto(m)
BY DEF FromProto

\* The fields that may differ from the message's of their name
LEMMA ChangingFields ==
  /\ \A k \in {"address", "player", "playerUpdate", "itemUpdate", "itemTypeUpdate",
                "orderUpdate"} : JsonFields(k) = {} /\ Submessages(k) = {}
  /\ \A k \in {"item", "itemType", "purchase"} :
       JsonFields(k) = {} /\ Submessages(k) = {"metadata"}
  /\ JsonFields("metadata") = {"properties"} /\ Submessages("metadata") = {}
  /\ JsonFields("order") = {"metadata", "bitpayInvoice"} /\ Submessages("order") = {"address"}
  /\ JsonFields("finalize") = {} /\ Submessages("finalize") = {"fraudScore"}
<1>1. \A k \in {"address", "player", "playerUpdate", "itemUpdate", "itemTypeUpdate",
                "orderUpdate"} : JsonFields(k) = {} /\ Submessages(k) = {}
  BY Zenon DEF JsonFields, Submessages
<1>2. \A k \in {"item", "itemType", "purchase"} :
        JsonFields(k) = {} /\ Submessages(k) = {"metadata"}
  BY Zenon DEF JsonFields, Submessages
<1>3. JsonFields("metadata") = {"properties"} /\ Submessages("metadata") = {}
  BY Zenon DEF JsonFields, Submessages
<1>4. JsonFields("order") = {"metadata", "bitpayInvoice"} /\ Submessages("order") = {"address"}
  BY Zenon DEF JsonFields, Submessages
<1>5. JsonFields("finalize") = {} /\ Submessages("finalize") = {"fraudScore"}
  BY Zenon DEF JsonFields, Submessages
<1> QED BY <1>1, <1>2, <1>3, <1>4, <1>5

\* What is made of each message is well formed and keeps the fields in place.
LEMMA ItemReceived ==
  ASSUME NEW m, IsMessage(m, Wires.item)
  PROVE  Received("item", m)
<1> DEFINE changed == [metadata |-> MetadataFromProto(m.metadata), itemState |-> ECast(m.itemState)]
           s == FromProto("item", m)
<1>1. /\ m.metadata \in {Absent} \cup Messages(MetadataWire)
      /\ m.itemState \in States /\ ECast(m.itemState) = m.itemState /\ m.itemState \in Char
  BY WithMetadataAt, Members, CastKeeps, CodecAssumption DEF Wires
<1>2. s = Named(Item, m, changed)
  BY FromProtoOf, ItemByName
<1> HIDE DEF s
<1>3. \A f \in (DOMAIN changed \cap DOMAIN m) \ {"metadata"} : changed[f] = m[f]
  BY <1>1
<1>4. /\ s = [f \in ToSet(Item) |-> s[f]]
      /\ SameFields(s, m, (DOMAIN s \cap DOMAIN m) \ {"metadata"})
      /\ s.metadata = MetadataFromProto(m.metadata)
      /\ s.itemState = ECast(m.itemState)
  BY <1>2, <1>3, Members DEF Named, SameFields
<1>5. WellFormed("item", s)
  BY <1>1, <1>4, ReadMetadata DEF WellFormed, Declared
<1>6. KeepPlace("item", s, m)
  BY <1>1, <1>4, ReadMetadata, ChangingFields DEF KeepPlace
<1> QED BY <1>5, <1>6 DEF Received, s

LEMMA ItemTypeReceived ==
  ASSUME NEW m, IsMessage(m, Wires.itemType)
  PROVE  Received("itemType", m)
<1> DEFINE changed == [metadata |-> MetadataFromProto(m.metadata), itemTypeState |-> ECast(m.itemTypeState)]
           s == FromProto("itemType", m)
<1>1. /\ m.metadata \in {Absent} \cup Messages(MetadataWire)
      /\ m.itemTypeState \in States /\ ECast(m.itemTypeState) = m.itemTypeState /\ m.itemTypeState \in Char
  BY WithMetadataAt, Members, CastKeeps, CodecAssumption DEF Wires
<1>2. s = Named(ItemType, m, changed)
  BY FromProtoOf, ItemTypeByName
<1> HIDE DEF s
<1>3. \A f \in (DOMAIN changed \cap DOMAIN m) \ {"metadata"} : changed[f] = m[f]
  BY <1>1
<1>4. /\ s = [f \in ToSet(ItemType) |-> s[f]]
      /\ SameFields(s, m, (DOMAIN s \cap DOMAIN m) \ {"metadata"})
      /\ s.metadata = MetadataFromProto(m.metadata)
      /\ s.itemTypeState = ECast(m.itemTypeState)
  BY <1>2, <1>3, Members DEF Named, SameFields
<1>5. WellFormed("itemType", s)
  BY <1>1, <1>4, ReadMetadata DEF WellFormed, Declared
<1>6. KeepPlace("itemType", s, m)
  BY <1>1, <1>4, ReadMetadata, ChangingFields DEF KeepPlace
<1> QED BY <1>5, <1>6 DEF Received, s

LEMMA PurchaseReceived ==
  ASSUME NEW m, IsMessage(m, Wires.purchase)
  PROVE  Received("purchase", m)
<1> DEFINE changed == [metadata |-> MetadataFromProto(m.metadata)]
           s == FromProto("purchase", m)
<1>1. /\ m.metadata \in {Absent} \cup Messages(MetadataWire)
  BY WithMetadataAt, Members, CastKeeps, CodecAssumption DEF Wires
<1>2. s = Named(PurchasedItems, m, changed)
  BY FromProtoOf, PurchaseByName
<1> HIDE DEF s
<1>3. \A f \in (DOMAIN changed \cap DOMAIN m) \ {"metadata"} : changed[f] = m[f]
  BY <1>1
<1>4. /\ s = [f \in ToSet(PurchasedItems) |-> s[f]]
      /\ SameFields(s, m, (DOMAIN s \cap DOMAIN m) \ {"metadata"})
      /\ s.metadata = MetadataFromProto(m.metadata)
  BY <1>2, <1>3, Members DEF Named, SameFields
<1>5. WellFormed("purchase", s)
  BY <1>1, <1>4, ReadMetadata DEF WellFormed, Declared
<1>6. KeepPlace("purchase", s, m)
  BY <1>1, <1>4, ReadMetadata, ChangingFields DEF KeepPlace
<1> QED BY <1>5, <1>6 DEF Received, s

LEMMA PlayerReceived ==
  ASSUME NEW m, IsMessage(m, Wires.player)
  PROVE  Received("player", m)
<1> DEFINE s == FromProto("player", m)
<1>1. m.playerState \in Char /\ ECast(m.playerState) = m.playerState
  BY WithMetadataAt, Members, CastKeeps, CodecAssumption DEF Wires
<1>2. s = Named(Player, m, [playerState |-> ECast(m.playerState)])
  BY FromProtoOf, PlayerByName
<1> HIDE DEF s
<1>3. /\ s = [f \in ToSet(Player) |-> s[f]]
      /\ SameFields(s, m, DOMAIN s \cap DOMAIN m)
      /\ s.playerState = m.playerState
  BY <1>1, <1>2, Members DEF Named, SameFields
<1>4. WellFormed("player", s) /\ KeepPlace("player", s, m)
  BY <1>1, <1>3, ChangingFields DEF WellFormed, Declared, KeepPlace
<1> QED BY <1>4 DEF Received, s

LEMMA PlayerStatusReceived ==
  ASSUME NEW m, IsMessage(m, Wires.playerUpdate)
  PROVE  Received("playerUpdate", m)
<1> DEFINE s == FromProto("playerUpdate", m)
<1>1. m.playerState \in Char /\ ECast(m.playerState) = m.playerState
  BY WithMetadataAt, Members, CastKeeps, CodecAssumption DEF Wires
<1>2. s = Named(PlayerStatusUpdate, m, [playerState |-> ECast(m.playerState)])
  BY FromProtoOf, PlayerStatusByName
<1> HIDE DEF s
<1>3. /\ s = [f \in ToSet(PlayerStatusUpdate) |-> s[f]]
      /\ SameFields(s, m, DOMAIN s \cap DOMAIN m)
      /\ s.playerState = m.playerState
  BY <1>1, <1>2, Members DEF Named, SameFields
<1>4. WellFormed("playerUpdate", s) /\ KeepPlace("playerUpdate", s, m)
  BY <1>1, <1>3, ChangingFields DEF WellFormed, Declared, KeepPlace
<1> QED BY <1>4 DEF Received, s

LEMMA ItemStatusReceived ==
  ASSUME NEW m, IsMessage(m, Wires.itemUpdate)
  PROVE  Received("itemUpdate", m)
<1> DEFINE s == FromProto("itemUpdate", m)
<1>1. m.itemState \in Char /\ ECast(m.itemState) = m.itemState
  BY WithMetadataAt, Members, CastKeeps, CodecAssumption DEF Wires
<1>2. s = Named(ItemStatusUpdate, m, [itemState |-> ECast(m.itemState)])
  BY FromProtoOf, ItemStatusByName
<1> HIDE DEF s
<1>3. /\ s = [f \in ToSet(ItemStatusUpdate) |-> s[f]]
      /\ SameFields(s, m, DOMAIN s \cap DOMAIN m)
      /\ s.itemState = m.itemState
  BY <1>1, <1>2, Members DEF Named, SameFields
<1>4. WellFormed("itemUpdate", s) /\ KeepPlace("itemUpdate", s, m)
  BY <1>1, <1>3, ChangingFields DEF WellFormed, Declared, KeepPlace
<1> QED BY <1>4 DEF Received, s

LEMMA ItemTypeStatusReceived ==
  ASSUME NEW m, IsMessage(m, Wires.itemTypeUpdate)
  PROVE  Received("itemTypeUpdate", m)
<1> DEFINE s == FromProto("itemTypeUpdate", m)
<1>1. m.itemTypeState \in Char /\ ECast(m.itemTypeState) = m.itemTypeState
  BY WithMetadataAt, Members, CastKeeps, CodecAssumption DEF Wires
<1>2. s = Named(ItemTypeStatusUpdate, m, [itemTypeState |-> ECast(m.itemTypeState)])
  BY FromProtoOf, ItemTypeStatusByName
<1> HIDE DEF s
<1>3. /\ s = [f \in ToSet(ItemTypeStatusUpdate) |-> s[f]]
      /\ SameFields(s, m, DOMAIN s \cap DOMAIN m)
      /\ s.itemTypeState = m.itemTypeState
  BY <1>1, <1>2, Members DEF Named, SameFields
<1>4. WellFormed("itemTypeUpdate", s) /\ KeepPlace("itemTypeUpdate", s, m)
  BY <1>1, <1>3, ChangingFields DEF WellFormed, Declared, KeepPlace
<1> QED BY <1>4 DEF Received, s

LEMMA OrderStatusReceived ==
  ASSUME NEW m, IsMessage(m, Wires.orderUpdate)
  PROVE  Received("orderUpdate", m)
<1> DEFINE s == FromProto("orderUpdate", m)
<1>1. m.orderState \in Char /\ ECast(m.orderState) = m.orderState
  BY WithMetadataAt, Members, CastKeeps, CodecAssumption DEF Wires
<1>2. s = Named(OrderStatusUpdate, m, [orderState |-> ECast(m.orderState)])
  BY FromProtoOf, OrderStatusByName
<1> HIDE DEF s
<1>3. /\ s = [f \in ToSet(OrderStatusUpdate) |-> s[f]]
      /\ SameFields(s, m, DOMAIN s \cap DOMAIN m)
      /\ s.orderState = m.orderState
  BY <1>1, <1>2, Members DEF Named, SameFields
<1>4. WellFormed("orderUpdate", s) /\ KeepPlace("orderUpdate", s, m)
  BY <1>1, <1>3, ChangingFields DEF WellFormed, Declared, KeepPlace
<1> QED BY <1>4 DEF Received, s

LEMMA MetadataReceived ==
  ASSUME NEW m \in Messages(MetadataWire)
  PROVE  Received("metadata", m)
<1> DEFINE s == FromProto("metadata", m)
<1>1. /\ DOMAIN m = ToSet(Metadata)
      /\ Read(m, MetadataWire) = m
  <2>1. IsMessage(m, MetadataWire)
    BY MessagesAssumption DEF Wires
  <2>2. /\ DOMAIN MetadataWire = ToSet(Metadata)
        /\ \A f \in ToSet(Metadata) : MetadataWire[f] \subseteq Values \cup Json
    BY Members DEF MetadataWire, Plain
  <2>3. m \in [ToSet(Metadata) -> Values \cup Json]
    BY <2>1, <2>2 DEF IsMessage
  <2> QED BY <2>3, MessagesAssumption DEF Read
<1>2. s = MetadataFromProto(m)
  BY FromProtoOf
<1> HIDE DEF s
<1>3. /\ IsMetadata(s) /\ SameFields(s, m, ToSet(Metadata) \ {"properties"})
  BY <1>1, <1>2, ReadMetadata
<1>4. WellFormed("metadata", s)
  BY <1>3 DEF WellFormed, Declared, IsMetadata
<1>5. KeepPlace("metadata", s, m)
  BY <1>1, <1>3, ChangingFields DEF KeepPlace, SameFields
<1> QED BY <1>4, <1>5 DEF Received, s

LEMMA AddressReceived ==
  ASSUME NEW m \in Messages(AddressWire)
  PROVE  Received("address", m)
<1> DEFINE s == FromProto("address", m)
<1>1. /\ DOMAIN m = ToSet(OrderAddress)
      /\ Read(m, AddressWire) = m
  <2>1. IsMessage(m, AddressWire)
    BY MessagesAssumption DEF Wires
  <2>2. m \in [ToSet(OrderAddress) -> Values]
    BY <2>1 DEF IsMessage, AddressWire, Plain
  <2> QED BY <2>2, MessagesAssumption DEF Read
<1>2. s = AddressFromProto(m)
  BY FromProtoOf
<1> HIDE DEF s
<1>3. /\ s \in [ToSet(OrderAddress) -> Values] /\ SameFields(s, m, ToSet(OrderAddress))
  BY <1>1, <1>2, ReadAddress
<1>4. WellFormed("address", s)
  BY <1>3 DEF WellFormed, Declared
<1>5. KeepPlace("address", s, m)
  BY <1>1, <1>3, ChangingFields DEF KeepPlace, SameFields
<1> QED BY <1>4, <1>5 DEF Received, s

LEMMA OrderReceived ==
  ASSUME NEW m, IsMessage(m, Wires.order)
  PROVE  Received("order", m)
<1> DEFINE s == FromProto("order", m)
<1>1. /\ DOMAIN m = (ToSet(Order) \ {"bitpayInvoice"}) \cup {"bitpay"}
      /\ m.address \in {Absent} \cup Messages(AddressWire)
      /\ m.metadata \in Json
      /\ m.bitpay # Absent => m.bitpay.invoice \in Json
      /\ \A f \in {"paymentProviderId", "orderStatus"} :
           m[f] \in Char /\ ECast(m[f]) = m[f]
  BY OrderWireAt, CastKeeps, CodecAssumption DEF Wires
<1>2. s = Named(Order, m,
           [address |-> AddressFromProto(m.address),
            metadata |-> IF m.metadata # Absent
                           THEN GoogleStructToJsonString(m.metadata) ELSE NoText,
            bitpayInvoice |-> IF m.bitpay # Absent
                                THEN GoogleStructToJsonString(m.bitpay.invoice) ELSE NoText,
            paymentProviderId |-> ECast(m.paymentProviderId),
            orderStatus |-> ECast(m.orderStatus)])
  BY FromProtoOf, OrderByName
<1> HIDE DEF s
<1>3. {"address", "metadata", "bitpayInvoice", "paymentProviderId", "orderStatus"}
        \subseteq ToSet(Order)
  BY Order[6] = "address", Order[7] = "metadata", Order[12] = "bitpayInvoice",
     Order[13] = "paymentProviderId", Order[14] = "orderStatus" DEF ToSet, Order
<1>4. /\ s = [f \in ToSet(Order) |-> s[f]]
      /\ SameFields(s, m, (DOMAIN s \cap DOMAIN m) \ {"address", "metadata", "bitpayInvoice"})
  BY <1>1, <1>2 DEF Named, SameFields
<1>5. /\ s.address = AddressFromProto(m.address)
      /\ s.metadata \in Texts \cup {NoText}
      /\ s.bitpayInvoice \in Texts \cup {NoText}
      /\ s.paymentProviderId \in Char /\ s.orderStatus \in Char
  BY <1>1, <1>2, <1>3, JsonConverts DEF Named
<1>6. WellFormed("order", s)
  BY <1>1, <1>4, <1>5, ReadAddress DEF WellFormed, Declared
<1>7. KeepPlace("order", s, m)
  <2>1. {"address", "metadata", "bitpayInvoice"} = JsonFields("order") \cup Submessages("order")
    BY ChangingFields
  <2>2. SameFields(s.address, Read(m.address, AddressWire), ToSet(OrderAddress))
    BY <1>1, <1>5, ReadAddress
  <2> QED BY <1>4, <2>1, <2>2 DEF KeepPlace
<1> QED BY <1>6, <1>7 DEF Received, s

\* The score: its fields where there is one, and no number where there is none.
LEMMA FinalizeReceived ==
  ASSUME NEW m, IsMessage(m, Wires.finalize)
  PROVE  /\ Received("finalize", m)
         /\ ShowsScore(FromProto("finalize", m), m.fraudScore)
<1> DEFINE s == FromProto("finalize", m)
<1>1. /\ DOMAIN m = ToSet(FinalizeOrderResponse) \ {"omniScore", "scoreIsValid"}
      /\ ECast(m.orderStatus) = m.orderStatus
  BY FinalizeWireAt, CastKeeps, CodecAssumption DEF Wires
<1>2. s = Named(FinalizeOrderResponse, m,
           [fraudScore |-> IF m.fraudScore # Absent THEN m.fraudScore.fraudScore ELSE INT32_MAX,
            omniScore |-> IF m.fraudScore # Absent THEN m.fraudScore.omniScore ELSE Unset,
            orderStatus |-> ECast(m.orderStatus),
            scoreIsValid |-> m.fraudScore # Absent])
  BY FromProtoOf, FinalizeByName
<1> HIDE DEF s
<1>3. {"fraudScore", "omniScore", "orderStatus", "scoreIsValid"}
        \subseteq ToSet(FinalizeOrderResponse)
  BY DEF ToSet, FinalizeOrderResponse
<1>4. /\ s = [f \in ToSet(FinalizeOrderResponse) |-> s[f]]
      /\ SameFields(s, m, (DOMAIN s \cap DOMAIN m) \ {"fraudScore"})
      /\ s.scoreIsValid = (m.fraudScore # Absent)
      /\ s.fraudScore = IF m.fraudScore # Absent THEN m.fraudScore.fraudScore ELSE INT32_MAX
      /\ s.omniScore = IF m.fraudScore # Absent THEN m.fraudScore.omniScore ELSE Unset
  BY <1>1, <1>2, <1>3 DEF Named, SameFields
<1>5. WellFormed("finalize", s)
  BY <1>4 DEF WellFormed, Declared
<1>6. KeepPlace("finalize", s, m)
  BY <1>4, ChangingFields DEF KeepPlace, SameFields
<1>7. ShowsScore(s, m.fraudScore)
  BY <1>4 DEF ShowsScore, SameFields
<1> QED BY <1>5, <1>6, <1>7 DEF Received, s

\* Whatever the engine sends, what the parsers make of it is as it was sent.
LEMMA AllReceived ==
  ASSUME NEW k \in DOMAIN Wires, NEW m \in Messages(Wires[k])
  PROVE  Received(k, m)
<1>1. IsMessage(m, Wires[k])
  BY MessagesAssumption
<1>2. k \in {"metadata", "item", "itemType", "address", "purchase", "order", "finalize",
            "player", "playerUpdate", "itemUpdate", "itemTypeUpdate", "orderUpdate"}
  BY DEF Wires
<1>3. Wires["metadata"] = MetadataWire /\ Wires["address"] = AddressWire
  BY DEF Wires
<1> QED BY <1>1, <1>2, <1>3, MetadataReceived, ItemReceived, ItemTypeReceived,
  AddressReceived, PurchaseReceived, OrderReceived, FinalizeReceived, PlayerReceived,
  PlayerStatusReceived, ItemStatusReceived, ItemTypeStatusReceived, OrderStatusReceived

-----------------------------------------------------------------------------
(* What is sent, and read back.                                            *)

LEMMA ToProtoOf ==
  ASSUME NEW s
  PROVE  /\ ToProto("metadata", s) = MetadataToProto(s)
         /\ ToProto("item", s) = ItemToProto(s)
         /\ ToProto("itemType", s) = ItemTypeToProto(s)
         /\ ToProto("address", s) = AddressToProto(s)
         /\ ToProto("purchase", s) = PurchasedItemsToProto(s)
         /\ ToProto("order", s) = OrderToProto(s)
         /\ ToProto("player", s) = PlayerToProto(s)
BY DEF ToProto

LEMMA ExpectedOf ==
  ASSUME NEW s
  PROVE  /\ Expected("metadata", s) = [s EXCEPT !.properties = CanonicalObject(@)]
         /\ \A k \in {"item", "itemType", "purchase"} :
              Expected(k, s) = [s EXCEPT !.metadata.properties = CanonicalObject(@)]
         /\ Expected("order", s) =
              [s EXCEPT !.metadata = Canonical(@), !.bitpayInvoice = Canonical(@)]
         /\ Expected("address", s) = s
         /\ Expected("player", s) = s
<1>1. Expected("metadata", s) = [s EXCEPT !.properties = CanonicalObject(@)]
  BY Zenon DEF Expected
<1>2. \A k \in {"item", "itemType", "purchase"} :
        Expected(k, s) = [s EXCEPT !.metadata.properties = CanonicalObject(@)]
  BY Zenon DEF Expected
<1>3. Expected("order", s) =
        [s EXCEPT !.metadata = Canonical(@), !.bitpayInvoice = Canonical(@)]
  BY Zenon DEF Expected
<1>4. Expected("address", s) = s /\ Expected("player", s) = s
  BY Zenon DEF Expected
<1> QED BY <1>1, <1>2, <1>3, <1>4

\* Metadata comes back with its JSON in the engine's spelling; an empty text as {}.
LEMMA MetadataBack ==
  ASSUME NEW s, IsMetadata(s)
  PROVE  MetadataFromProto(MetadataToProto(s)) = [s EXCEPT !.properties = CanonicalObject(@)]
<1> DEFINE m == MetadataToProto(s)
<1>1. /\ m = [f \in ToSet(Metadata) |-> m[f]]
      /\ m.properties = JsonStringToGoogleStruct(s.properties)
      /\ \A f \in ToSet(Metadata) \ {"properties"} : m[f] = s[f]
  BY Members DEF MetadataToProto, Set
<1>2. /\ m.properties \in Objects
      /\ GoogleStructToJsonString(m.properties) = CanonicalObject(s.properties)
  BY <1>1, JsonConverts DEF IsMetadata
<1> HIDE DEF m
<1>3. m \in [ToSet(Metadata) -> Values \cup Json]
  BY <1>1, <1>2, Members DEF IsMetadata, Json
<1>4. Read(m, MetadataWire) = m
  BY <1>3, MessagesAssumption DEF Read
<1>5. MetadataFromProto(m) =
        Named(Metadata, m, [properties |-> GoogleStructToJsonString(m.properties)])
  BY <1>4, MetadataByName
<1>6. Named(Metadata, m, [properties |-> GoogleStructToJsonString(m.properties)]) =
        [s EXCEPT !.properties = CanonicalObject(@)]
  BY <1>1, <1>2, Members DEF Named, IsMetadata
<1> QED BY <1>5, <1>6 DEF m

LEMMA AddressBack ==
  ASSUME NEW s \in [ToSet(OrderAddress) -> Values]
  PROVE  AddressToProto(s) # Absent /\ AddressFromProto(AddressToProto(s)) = s
<1>1. AddressToProto(s) = s
  BY DEF AddressToProto, Set
<1>2. Read(s, AddressWire) = s /\ s # Absent
  BY MessagesAssumption DEF Read
<1>3. AddressFromProto(s) = Named(OrderAddress, s, <<>>)
  BY <1>2, AddressByName
<1>4. Named(OrderAddress, s, <<>>) = s
  BY DEF Named
<1> QED BY <1>1, <1>2, <1>3, <1>4

LEMMA ItemBack ==
  ASSUME NEW s, WellFormed("item", s)
  PROVE  FromProto("item", ToProto("item", s)) = Expected("item", s)
<1> DEFINE m == ItemToProto(s)
           changed == [metadata |-> MetadataFromProto(m.metadata), itemState |-> ECast(m.itemState)]
<1>1. /\ s = [f \in ToSet(Item) |-> s[f]]
      /\ IsMetadata(s.metadata)
      /\ s.itemState \in Char
  BY DEF WellFormed, Declared
<1>2. /\ m.metadata = MetadataToProto(s.metadata)
      /\ m.itemState = s.itemState /\ ECast(m.itemState) = s.itemState
      /\ \A f \in ToSet(Item) \ {"metadata", "itemState"} : m[f] = s[f]
  BY <1>1, Members, CastKeeps DEF ItemToProto, Set
<1> HIDE DEF m
<1>3. changed.metadata = [s.metadata EXCEPT !.properties = CanonicalObject(@)]
  BY <1>1, <1>2, MetadataBack
<1>4. Named(Item, m, changed) = [s EXCEPT !.metadata.properties = CanonicalObject(@)]
  BY <1>1, <1>2, <1>3, Members DEF Named
<1>5. FromProto("item", m) = Named(Item, m, changed)
  BY FromProtoOf, ItemByName
<1> QED BY <1>4, <1>5, ToProtoOf, ExpectedOf DEF m

LEMMA ItemTypeBack ==
  ASSUME NEW s, WellFormed("itemType", s)
  PROVE  FromProto("itemType", ToProto("itemType", s)) = Expected("itemType", s)
<1> DEFINE m == ItemTypeToProto(s)
           changed == [metadata |-> MetadataFromProto(m.metadata), itemTypeState |-> ECast(m.itemTypeState)]
<1>1. /\ s = [f \in ToSet(ItemType) |-> s[f]]
      /\ IsMetadata(s.metadata)
      /\ s.itemTypeState \in Char
  BY DEF WellFormed, Declared
<1>2. /\ m.metadata = MetadataToProto(s.metadata)
      /\ m.itemTypeState = s.itemTypeState /\ ECast(m.itemTypeState) = s.itemTypeState
      /\ \A f \in ToSet(ItemType) \ {"metadata", "itemTypeState"} : m[f] = s[f]
  BY <1>1, Members, CastKeeps DEF ItemTypeToProto, Set
<1> HIDE DEF m
<1>3. changed.metadata = [s.metadata EXCEPT !.properties = CanonicalObject(@)]
  BY <1>1, <1>2, MetadataBack
<1>4. Named(ItemType, m, changed) = [s EXCEPT !.metadata.properties = CanonicalObject(@)]
  BY <1>1, <1>2, <1>3, Members DEF Named
<1>5. FromProto("itemType", m) = Named(ItemType, m, changed)
  BY FromProtoOf, ItemTypeByName
<1> QED BY <1>4, <1>5, ToProtoOf, ExpectedOf DEF m

LEMMA PurchaseBack ==
  ASSUME NEW s, WellFormed("purchase", s)
  PROVE  FromProto("purchase", ToProto("purchase", s)) = Expected("purchase", s)
<1> DEFINE m == PurchasedItemsToProto(s)
           changed == [metadata |-> MetadataFromProto(m.metadata)]
<1>1. /\ s = [f \in ToSet(PurchasedItems) |-> s[f]]
      /\ IsMetadata(s.metadata)
  BY DEF WellFormed, Declared
<1>2. /\ m.metadata = MetadataToProto(s.metadata)
      /\ \A f \in ToSet(PurchasedItems) \ {"metadata"} : m[f] = s[f]
  BY <1>1, Members, CastKeeps DEF PurchasedItemsToProto, Set
<1> HIDE DEF m
<1>3. changed.metadata = [s.metadata EXCEPT !.properties = CanonicalObject(@)]
  BY <1>1, <1>2, MetadataBack
<1>4. Named(PurchasedItems, m, changed) = [s EXCEPT !.metadata.properties = CanonicalObject(@)]
  BY <1>1, <1>2, <1>3, Members DEF Named
<1>5. FromProto("purchase", m) = Named(PurchasedItems, m, changed)
  BY FromProtoOf, PurchaseByName
<1> QED BY <1>4, <1>5, ToProtoOf, ExpectedOf DEF m

LEMMA PlayerBack ==
  ASSUME NEW s, WellFormed("player", s)
  PROVE  FromProto("player", ToProto("player", s)) = Expected("player", s)
<1> DEFINE m == PlayerToProto(s)
<1>1. s = [f \in ToSet(Player) |-> s[f]] /\ s.playerState \in Char
  BY DEF WellFormed, Declared
<1>2. /\ ECast(m.playerState) = s.playerState
      /\ \A f \in ToSet(Player) : m[f] = s[f]
  BY <1>1, Members, CastKeeps DEF PlayerToProto, Set
<1> HIDE DEF m
<1>3. Named(Player, m, [playerState |-> ECast(m.playerState)]) = s
  BY <1>1, <1>2 DEF Named
<1>4. FromProto("player", m) = s
  BY <1>3, FromProtoOf, PlayerByName
<1> QED BY <1>4, ToProtoOf, ExpectedOf DEF m

\* What an order is sent as: a text that is empty sets nothing.
LEMMA OrderToProtoAt ==
  ASSUME NEW s
  PROVE  /\ OrderToProto(s).address = AddressToProto(s.address)
         /\ OrderToProto(s).metadata =
              IF s.metadata # NoText THEN JsonStringToGoogleStruct(s.metadata) ELSE Absent
         /\ OrderToProto(s).bitpay =
              IF s.bitpayInvoice # NoText
                THEN [invoice |-> JsonStringToGoogleStruct(s.bitpayInvoice)] ELSE Absent
         /\ \A f \in {"paymentProviderId", "orderStatus"} : OrderToProto(s)[f] = ECast(s[f])
         /\ \A f \in ToSet(Order) \ {"address", "metadata", "bitpayInvoice",
                                     "paymentProviderId", "orderStatus"} :
              OrderToProto(s)[f] = s[f]
<1> DEFINE m == OrderToProto(s)
           fields == (ToSet(Order) \ {"bitpayInvoice"}) \cup {"bitpay"}
<1>1. /\ {"address", "metadata", "bitpay", "paymentProviderId", "orderStatus"} \subseteq fields
      /\ "bitpay" \notin ToSet(Order)
  <2>1. {"address", "metadata", "paymentProviderId", "orderStatus"} \subseteq ToSet(Order)
    BY Order[6] = "address", Order[7] = "metadata",
       Order[13] = "paymentProviderId", Order[14] = "orderStatus" DEF ToSet, Order
  <2>2. "bitpay" \notin ToSet(Order)
    BY DEF ToSet, Order
  <2> QED BY <2>1, <2>2
<1>2. DOMAIN OrderWire = fields
  BY DEF OrderWire
<1>3. ASSUME NEW f \in fields
      PROVE  m[f] =
        CASE f = "address" -> AddressToProto(s.address)
          [] f = "metadata" ->
               IF s.metadata # NoText THEN JsonStringToGoogleStruct(s.metadata) ELSE Absent
          [] f = "bitpay" ->
               IF s.bitpayInvoice # NoText
                 THEN [invoice |-> JsonStringToGoogleStruct(s.bitpayInvoice)] ELSE Absent
          [] f \in {"paymentProviderId", "orderStatus"} -> ECast(s[f])
          [] OTHER -> s[f]
  BY <1>2, <1>3, Zenon DEF OrderToProto
<1> HIDE DEF m
<1>4. m["address"] = AddressToProto(s.address)
  BY <1>1, <1>3, Zenon
<1>5. m["metadata"] =
        IF s.metadata # NoText THEN JsonStringToGoogleStruct(s.metadata) ELSE Absent
  BY <1>1, <1>3, Zenon
<1>6. m["bitpay"] = IF s.bitpayInvoice # NoText
                      THEN [invoice |-> JsonStringToGoogleStruct(s.bitpayInvoice)] ELSE Absent
  BY <1>1, <1>3, Zenon
<1>7. \A f \in {"paymentProviderId", "orderStatus"} : m[f] = ECast(s[f])
  BY <1>1, <1>3, Zenon
<1>8. ASSUME NEW f \in ToSet(Order) \ {"address", "metadata", "bitpayInvoice",
                                      "paymentProviderId", "orderStatus"}
      PROVE  m[f] = s[f]
  <2>1. f \in fields /\ f # "bitpay"
    BY <1>1
  <2> QED BY <1>3, <2>1, Zenon
<1> QED BY <1>4, <1>5, <1>6, <1>7, <1>8 DEF m

LEMMA OrderBack ==
  ASSUME NEW s, WellFormed("order", s)
  PROVE  FromProto("order", ToProto("order", s)) = Expected("order", s)
<1> DEFINE m == OrderToProto(s)
           changed ==
             [address |-> AddressFromProto(m.address),
              metadata |-> IF m.metadata # Absent
                             THEN GoogleStructToJsonString(m.metadata) ELSE NoText,
              bitpayInvoice |-> IF m.bitpay # Absent
                                  THEN GoogleStructToJsonString(m.bitpay.invoice) ELSE NoText,
              paymentProviderId |-> ECast(m.paymentProviderId),
              orderStatus |-> ECast(m.orderStatus)]
           expected == [s EXCEPT !.metadata = Canonical(@), !.bitpayInvoice = Canonical(@)]
<1>1. /\ s = [f \in ToSet(Order) |-> s[f]]
      /\ s.address \in [ToSet(OrderAddress) -> Values]
      /\ s.metadata \in Texts \cup {NoText}
      /\ s.bitpayInvoice \in Texts \cup {NoText}
      /\ \A f \in {"paymentProviderId", "orderStatus"} : s[f] \in Char
  BY DEF WellFormed, Declared
<1>2. /\ m.address = AddressToProto(s.address)
      /\ m.metadata =
           IF s.metadata # NoText THEN JsonStringToGoogleStruct(s.metadata) ELSE Absent
      /\ m.bitpay =
           IF s.bitpayInvoice # NoText
             THEN [invoice |-> JsonStringToGoogleStruct(s.bitpayInvoice)] ELSE Absent
      /\ \A f \in {"paymentProviderId", "orderStatus"} : m[f] = s[f] /\ ECast(m[f]) = s[f]
      /\ \A f \in ToSet(Order) \ {"address", "metadata", "bitpayInvoice",
                                  "paymentProviderId", "orderStatus"} : m[f] = s[f]
  BY <1>1, OrderToProtoAt, CastKeeps
<1> HIDE DEF m
<1>3. changed.address = s.address
  BY <1>1, <1>2, AddressBack
<1>4. changed.metadata = Canonical(s.metadata)
  <2>1. CASE s.metadata = NoText
    BY <1>2, <2>1 DEF Canonical
  <2>2. CASE s.metadata # NoText
    BY <1>1, <1>2, <2>2, JsonConverts, JsonAssumption
  <2> QED BY <2>1, <2>2
<1>5. changed.bitpayInvoice = Canonical(s.bitpayInvoice)
  <2>1. CASE s.bitpayInvoice = NoText
    BY <1>2, <2>1 DEF Canonical
  <2>2. CASE s.bitpayInvoice # NoText
    <3>1. m.bitpay = [invoice |-> JsonStringToGoogleStruct(s.bitpayInvoice)]
      BY <1>2, <2>2
    <3>2. /\ s.bitpayInvoice \in Texts
          /\ JsonStringToGoogleStruct(s.bitpayInvoice) \in Objects
      BY <1>1, <2>2, JsonConverts
    <3>3. m.bitpay # Absent
      BY <3>1, <3>2, MessagesAssumption
    <3> QED BY <3>1, <3>2, <3>3, JsonConverts
  <2> QED BY <2>1, <2>2
<1>6. changed.paymentProviderId = s.paymentProviderId /\ changed.orderStatus = s.orderStatus
  BY <1>2
<1>7. Named(Order, m, changed) = expected
  <2>1. DOMAIN changed = {"address", "metadata", "bitpayInvoice", "paymentProviderId",
                          "orderStatus"}
    OBVIOUS
  <2> HIDE DEF changed
  <2> QED BY <1>1, <1>2, <1>3, <1>4, <1>5, <1>6, <2>1 DEF Named
<1>8. FromProto("order", m) = Named(Order, m, changed)
  BY FromProtoOf, OrderByName
<1> QED BY <1>7, <1>8, ToProtoOf, ExpectedOf DEF m

\* What the SDK sends of a well-formed struct reads back as that struct.
LEMMA AllBack ==
  ASSUME NEW k \in Convertible, NEW s, WellFormed(k, s)
  PROVE  FromProto(k, ToProto(k, s)) = Expected(k, s)
<1>1. ASSUME WellFormed("metadata", s)
      PROVE  FromProto("metadata", ToProto("metadata", s)) = Expected("metadata", s)
  <2>1. MetadataFromProto(MetadataToProto(s)) = Expected("metadata", s)
    <3>1. IsMetadata(s)
      BY <1>1 DEF WellFormed
    <3>2. MetadataFromProto(MetadataToProto(s)) = [s EXCEPT !.properties = CanonicalObject(@)]
      BY <3>1, MetadataBack
    <3>3. Expected("metadata", s) = [s EXCEPT !.properties = CanonicalObject(@)]
      BY ExpectedOf
    <3> QED BY <3>2, <3>3, Zenon
  <2> QED BY <2>1, FromProtoOf, ToProtoOf
<1>2. ASSUME WellFormed("address", s)
      PROVE  FromProto("address", ToProto("address", s)) = Expected("address", s)
  <2>1. AddressFromProto(AddressToProto(s)) = Expected("address", s)
    BY <1>2, AddressBack, ExpectedOf DEF WellFormed
  <2> QED BY <2>1, FromProtoOf, ToProtoOf
<1> QED BY <1>1, <1>2, ItemBack, ItemTypeBack, PurchaseBack, OrderBack, PlayerBack DEF Convertible

-----------------------------------------------------------------------------
(* The application's edits, and the confirmations.                         *)

\* An edit of the JSON leaves a struct well formed and every other field in place.
LEMMA MetadataEdited ==
  ASSUME NEW k \in {"item", "itemType", "purchase"}, NEW s, WellFormed(k, s), NEW m,
         NEW text \in Texts \cup {NoText}
  PROVE  LET edited == [s EXCEPT !.metadata.properties = text]
         IN  WellFormed(k, edited) /\ (KeepPlace(k, s, m) => KeepPlace(k, edited, m))
<1> DEFINE edited == [s EXCEPT !.metadata.properties = text]
<1>1. /\ s = [f \in ToSet(Declared[k]) |-> s[f]]
      /\ "metadata" \in ToSet(Declared[k])
      /\ IsMetadata(s.metadata)
  BY Members DEF WellFormed, Declared
<1>2. /\ edited = [f \in ToSet(Declared[k]) |-> edited[f]]
      /\ edited.metadata = [s.metadata EXCEPT !.properties = text]
      /\ \A f \in ToSet(Declared[k]) \ {"metadata"} : edited[f] = s[f]
      /\ DOMAIN edited = DOMAIN s
  BY <1>1
<1> HIDE DEF edited
<1>3. /\ IsMetadata(edited.metadata)
      /\ \A f \in ToSet(Metadata) \ {"properties"} : edited.metadata[f] = s.metadata[f]
  BY <1>1, <1>2, Members DEF IsMetadata
<1>4. WellFormed(k, edited)
  <2>1. k = "item" => edited.itemState = s.itemState
    BY <1>2, Members DEF Declared
  <2>2. k = "itemType" => edited.itemTypeState = s.itemTypeState
    BY <1>2, Members DEF Declared
  <2> QED BY <1>2, <1>3, <2>1, <2>2 DEF WellFormed
<1>5. KeepPlace(k, s, m) => KeepPlace(k, edited, m)
  <2>1. JsonFields(k) \cup Submessages(k) = {"metadata"}
    BY ChangingFields
  <2>2. DOMAIN s = ToSet(Declared[k])
    BY <1>1
  <2> QED BY <1>2, <1>3, <2>1, <2>2 DEF KeepPlace, SameFields
<1> QED BY <1>4, <1>5 DEF edited

LEMMA OrderEdited ==
  ASSUME NEW s, WellFormed("order", s), NEW m, NEW text \in Texts \cup {NoText},
         NEW field \in {"metadata", "bitpayInvoice"}
  PROVE  LET edited == [s EXCEPT ![field] = text]
         IN  /\ WellFormed("order", edited)
             /\ KeepPlace("order", s, m) => KeepPlace("order", edited, m)
<1> DEFINE edited == [s EXCEPT ![field] = text]
<1>1. /\ s = [f \in ToSet(Order) |-> s[f]]
      /\ {"address", "metadata", "bitpayInvoice", "paymentProviderId", "orderStatus"}
           \subseteq ToSet(Order)
  BY Order[6] = "address", Order[7] = "metadata", Order[12] = "bitpayInvoice",
     Order[13] = "paymentProviderId", Order[14] = "orderStatus"
     DEF ToSet, Order, WellFormed, Declared
<1>2. /\ edited = [f \in ToSet(Order) |-> edited[f]]
      /\ edited[field] = text
      /\ \A f \in ToSet(Order) \ {field} : edited[f] = s[f]
      /\ DOMAIN edited = DOMAIN s
  BY <1>1
<1> HIDE DEF edited
<1>3. WellFormed("order", edited)
  BY <1>1, <1>2 DEF WellFormed, Declared
<1>4. KeepPlace("order", s, m) => KeepPlace("order", edited, m)
  <2>1. field \in JsonFields("order") \cup Submessages("order")
    BY ChangingFields
  <2>2. DOMAIN s = ToSet(Order) /\ edited.address = s.address
    BY <1>1, <1>2
  <2> QED BY <1>2, <2>1, <2>2 DEF KeepPlace, SameFields
<1> QED BY <1>3, <1>4 DEF edited

\* What a confirmation is made of are the message's own fields.
LEMMA Confirmed ==
  ASSUME NEW k \in DOMAIN ConfirmRequest, NEW m, IsMessage(m, Wires[k])
  PROVE  SameFields(Confirmation(k, m), m, DOMAIN Confirmation(k, m))
<1> DEFINE given == ConfirmedFields[k]
           values == [i \in DOMAIN given |->
                       IF i = Len(given) THEN ECast(m[given[i]]) ELSE m[given[i]]]
<1>1. ECast(m[given[Len(given)]]) = m[given[Len(given)]]
  <2>1. CASE k = "playerUpdate"
    <3>1. given[Len(given)] = "playerState" /\ m.playerState \in States
      BY <2>1, WithMetadataAt, Members DEF Wires, ConfirmedFields
    <3> QED BY <3>1, CastKeeps, CodecAssumption
  <2>2. CASE k = "itemUpdate"
    <3>1. given[Len(given)] = "itemState" /\ m.itemState \in States
      BY <2>2, WithMetadataAt, Members DEF Wires, ConfirmedFields
    <3> QED BY <3>1, CastKeeps, CodecAssumption
  <2>3. CASE k = "itemTypeUpdate"
    <3>1. given[Len(given)] = "itemTypeState" /\ m.itemTypeState \in States
      BY <2>3, WithMetadataAt, Members DEF Wires, ConfirmedFields
    <3> QED BY <3>1, CastKeeps, CodecAssumption
  <2>4. CASE k = "orderUpdate"
    <3>1. given[Len(given)] = "orderState" /\ m.orderState \in States
      BY <2>4, WithMetadataAt, Members DEF Wires, ConfirmedFields
    <3> QED BY <3>1, CastKeeps, CodecAssumption
  <2> QED BY <2>1, <2>2, <2>3, <2>4 DEF ConfirmRequest
<1>2. given = ConfirmRequest[k]
  BY DEF ConfirmedFields, ConfirmRequest
<1> HIDE DEF given
<1>3. \A i \in DOMAIN given : values[i] = m[given[i]]
  BY <1>1
<1>4. Confirmation(k, m) = Aggregate(given, values)
  BY <1>2 DEF Confirmation, given
<1> HIDE DEF values
<1>5. Aggregate(given, values) = Named(given, m, <<>>)
  BY <1>3, AggregateByName
<1> QED BY <1>4, <1>5 DEF SameFields, Named

-----------------------------------------------------------------------------
(* The inductive invariant.                                                *)

\* What is sent is made of what the application has, or of the update in the
\* buffer, and nothing is edited after that.
SentIsMade ==
  /\ sent # Nothing =>
       /\ struct # Nothing
       /\ kind \in Convertible => sent = ToProto(kind, struct)
       /\ kind \in DOMAIN ConfirmRequest => sent = Confirmation(kind, received)
  /\ reread # Nothing => sent # Nothing

IInv ==
  /\ kind \in DOMAIN Wires /\ received \in Messages(Wires[kind])
  /\ struct # Nothing => WellFormed(kind, struct)
  /\ SentIsMade
  /\ FieldsKeepTheirPlace
  /\ ScoreIsTheEngines
  /\ RoundTrip

LEMMA InvInit == Init => IInv
BY DEF Init, IInv, SentIsMade, FieldsKeepTheirPlace, ScoreIsTheEngines, RoundTrip

LEMMA ReceiveInv ==
  ASSUME IInv, Receive
  PROVE  IInv'
<1>1. /\ struct' = FromProto(kind, received)
      /\ UNCHANGED <<kind, received, sent, reread>>
      /\ sent = Nothing /\ reread = Nothing
      /\ kind \in DOMAIN Wires /\ received \in Messages(Wires[kind])
  BY DEF Receive, IInv, SentIsMade
<1>2. WellFormed(kind, struct)' /\ KeepPlace(kind, struct, received)'
  BY <1>1, AllReceived DEF Received
<1>3. ScoreIsTheEngines'
  <2>1. kind = "finalize" => IsMessage(received, Wires.finalize)
    BY <1>1, MessagesAssumption
  <2> QED BY <1>1, <2>1, FinalizeReceived DEF ScoreIsTheEngines
<1>4. FieldsKeepTheirPlace' /\ SentIsMade' /\ RoundTrip'
  BY <1>1, <1>2 DEF FieldsKeepTheirPlace, SentIsMade, RoundTrip
<1> QED BY <1>1, <1>2, <1>3, <1>4 DEF IInv

LEMMA EditInv ==
  ASSUME IInv, Edit
  PROVE  IInv'
<1>1. /\ struct # Nothing /\ sent = Nothing /\ reread = Nothing
      /\ UNCHANGED <<kind, received, sent, reread>>
      /\ WellFormed(kind, struct) /\ KeepPlace(kind, struct, received)
  BY DEF Edit, IInv, SentIsMade, FieldsKeepTheirPlace
<1>2. PICK text \in Texts \cup {NoText} :
        \/ kind \in {"item", "itemType", "purchase"}
             /\ struct' = [struct EXCEPT !.metadata.properties = text]
        \/ kind = "order" /\ \E field \in {"metadata", "bitpayInvoice"} :
                              struct' = [struct EXCEPT ![field] = text]
  BY DEF Edit
<1>3. /\ kind # "finalize"
      /\ WellFormed(kind, struct') /\ KeepPlace(kind, struct', received)
  <2>1. CASE /\ kind \in {"item", "itemType", "purchase"}
             /\ struct' = [struct EXCEPT !.metadata.properties = text]
    BY <1>1, <2>1, MetadataEdited
  <2>2. ASSUME kind = "order", NEW field \in {"metadata", "bitpayInvoice"},
               struct' = [struct EXCEPT ![field] = text]
        PROVE  /\ kind # "finalize"
               /\ WellFormed(kind, struct') /\ KeepPlace(kind, struct', received)
    BY <1>1, <2>2, OrderEdited
  <2> QED BY <1>2, <2>1, <2>2
<1>4. FieldsKeepTheirPlace' /\ ScoreIsTheEngines' /\ SentIsMade' /\ RoundTrip'
  BY <1>1, <1>3 DEF FieldsKeepTheirPlace, ScoreIsTheEngines, SentIsMade, RoundTrip
<1> QED BY <1>1, <1>3, <1>4 DEF IInv

LEMMA SendInv ==
  ASSUME IInv, Send \/ SendConfirm
  PROVE  IInv'
<1>1. /\ struct # Nothing /\ reread = Nothing
      /\ UNCHANGED <<kind, received, struct, reread>>
      /\ \/ kind \in Convertible /\ sent' = ToProto(kind, struct)
         \/ kind \in DOMAIN ConfirmRequest /\ sent' = Confirmation(kind, received)
  BY DEF Send, SendConfirm, IInv, SentIsMade, ConfirmedFields, ConfirmRequest
<1>2. Convertible \cap DOMAIN ConfirmRequest = {}
  BY DEF Convertible, ConfirmRequest
<1>3. SentIsMade'
  BY <1>1, <1>2 DEF SentIsMade
<1> QED BY <1>1, <1>3 DEF IInv, FieldsKeepTheirPlace, ScoreIsTheEngines, RoundTrip

LEMMA ReceiveBackInv ==
  ASSUME IInv, ReceiveBack
  PROVE  IInv'
<1>1. /\ kind \in Convertible /\ WellFormed(kind, struct)
      /\ sent # Nothing /\ sent = ToProto(kind, struct)
      /\ reread' = FromProto(kind, sent)
      /\ UNCHANGED <<kind, received, struct, sent>>
  BY DEF ReceiveBack, IInv, SentIsMade
<1>2. RoundTrip'
  BY <1>1, AllBack DEF RoundTrip
<1> QED BY <1>1, <1>2 DEF IInv, SentIsMade, FieldsKeepTheirPlace, ScoreIsTheEngines

LEMMA InvStep == IInv /\ [Next]_vars => IInv'
<1> SUFFICES ASSUME IInv, [Next]_vars PROVE IInv'
  OBVIOUS
<1>1. CASE UNCHANGED vars
  BY <1>1 DEF vars, IInv, SentIsMade, FieldsKeepTheirPlace, ScoreIsTheEngines, RoundTrip
<1> QED BY <1>1, ReceiveInv, EditInv, SendInv, ReceiveBackInv DEF Next

\* Every message, struct and answer is related as IInv says.
THEOREM Invariance == Spec => []IInv
BY InvInit, InvStep, PTL DEF Spec

\* Whatever the engine sends, each field of a struct holds the message's field
\* of its name, before and after the application's edits of the JSON.
THEOREM NoFieldsSwapped == Spec => []FieldsKeepTheirPlace
<1>1. IInv => FieldsKeepTheirPlace
  BY DEF IInv
<1> QED BY <1>1, Invariance, PTL

\* Whatever the engine sends, INT32_MAX for a score too, a struct's two scores are
\* the engine's exactly if the flag says so, and the placeholders otherwise.
THEOREM ScoresAreTheEngines == Spec => []ScoreIsTheEngines
<1>1. IInv => ScoreIsTheEngines
  BY DEF IInv
<1> QED BY <1>1, Invariance, PTL

\* Whatever the engine sent and the application wrote in the JSON, what ToProto
\* makes of the struct reads back as it was, JSON up to its spelling.
THEOREM SentReadsBack == Spec => []RoundTrip
<1>1. IInv => RoundTrip
  BY DEF IInv
<1> QED BY <1>1, Invariance, PTL

\* Whatever the update says, its confirmation says the same of the same thing.
THEOREM ConfirmationsAreOfUpdate == Spec => []ConfirmationNamesUpdate
<1>1. IInv => ConfirmationNamesUpdate
  <2> SUFFICES ASSUME IInv, kind \in DOMAIN ConfirmRequest, sent # Nothing
               PROVE  SameFields(sent, received, DOMAIN sent)
    BY DEF ConfirmationNamesUpdate
  <2>1. IsMessage(received, Wires[kind]) /\ sent = Confirmation(kind, received)
    BY MessagesAssumption DEF IInv, SentIsMade
  <2> QED BY <2>1, Confirmed
<1> QED BY <1>1, Invariance, PTL

=============================================================================
