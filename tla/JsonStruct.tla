----------------------------- MODULE JsonStruct -----------------------------
(***************************************************************************)
(* JSON as the SDK has it, a text, and as the messages have it, a          *)
(* google::protobuf::Struct (ivi-model.cpp).                               *)
(***************************************************************************)
CONSTANTS
  Objects,      \* JSON objects (google::protobuf::Struct)
  EmptyObject,  \* {}
  Texts,        \* JSON texts of an object
  Denotes,      \* the object of a text (JsonStringToMessage)
  Printed,      \* the text of an object (MessageToJsonString)
  NoText,       \* the empty string
  Absent        \* a message field that is not set

ASSUME JsonAssumption ==
  /\ EmptyObject \in Objects
  /\ Denotes \in [Texts -> Objects]
  /\ Printed \in [Objects -> Texts]
  /\ \A o \in Objects : Denotes[Printed[o]] = o
  /\ NoText \notin Texts
  /\ Absent \notin Objects

\* Past IVI_CHECK(status.ok()): a malformed text is never converted
JsonStringToGoogleStruct(text) == IF text = NoText THEN EmptyObject ELSE Denotes[text]

\* A field that is not set reads as the default instance
GoogleStructToJsonString(field) == Printed[IF field = Absent THEN EmptyObject ELSE field]
=============================================================================
