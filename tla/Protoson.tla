------------------------------ MODULE Protoson ------------------------------
(***************************************************************************)
(* src/obsequi/protoson.cc: fill_message copies the tree that parse_json   *)
(* made of a JSON text into a protobuf message, and get_json writes a      *)
(* message out.  The protobuf library is external: Schema is what          *)
(* obsequi.proto tells it.                                                 *)
(***************************************************************************)
EXTENDS JsonParser, SequencesExt

-----------------------------------------------------------------------------
(* obsequi.proto: the fields of each message in the order of their numbers.
   ScoreMetrics has thirteen more fields like the two here.                  *)

Field(name, type, repeated) == [name |-> name, type |-> type, repeated |-> repeated]

Schema ==
  [Request      |-> <<Field("board", "Board", FALSE)>>,
   Board        |-> <<Field("rows", "int32", FALSE), Field("cols", "int32", FALSE),
                      Field("blocks", "Block", TRUE),
                      Field("whos_turn", "Direction", FALSE)>>,
   Block        |-> <<Field("row", "int32", FALSE), Field("col", "int32", FALSE)>>,
   Response     |-> <<Field("score", "int32", FALSE),
                      Field("v_metrics", "ScoreMetrics", FALSE),
                      Field("h_metrics", "ScoreMetrics", FALSE)>>,
   ScoreMetrics |-> <<Field("safe", "int32", FALSE), Field("opp_real", "int32", FALSE)>>]

Direction == {"HORIZONTAL", "VERTICAL"}

FieldsOf(type) == {Schema[type][i] : i \in DOMAIN Schema[type]}

\* A message is a function on the names of the fields it has; one of a field
\* that it has not is the empty one.
NoMessage == [n \in {} |-> 0]

Has(msg, field) == field.name \in DOMAIN msg
Set(msg, field, value) == (field.name :> value) @@ msg

-----------------------------------------------------------------------------
(* fill_message.  The outcome is the message as far as it was filled and
   "true", "false", or "undefined" when the program reads through a null
   pointer.                                                                  *)

Outcome(msg, returns) == [msg |-> msg, returns |-> returns]

\* Int32: atoi at the start of a string or number; no other value has one.
HasDigits(node) == node.token.kind \in {"string", "number"}

RECURSIVE FillObject(_, _, _)

\* Mutant: the name of a repeated field is looked up, its old elements are not.
OnlyTheLast(msg, field, value) == Set(msg, field, <<value>>)

AddOne(msg, field, value) ==
  Set(msg, field, Append(IF Has(msg, field) THEN msg[field.name] ELSE <<>>, value))

SetOrAdd(msg, field, value) ==
  IF field.repeated THEN AddOne(msg, field, value) ELSE Set(msg, field, value)

\* handle_json_value.  What handle_json_object says of a nested message is not
\* looked at; an enum's name that is not known leaves the field as it was.
FillValue(msg, field, node) ==
  CASE field.type = "int32" ->
         IF HasDigits(node) THEN Outcome(SetOrAdd(msg, field, node.token.int), "true")
                            ELSE Outcome(msg, "undefined")
    [] field.type = "Direction" ->
         Outcome(IF node.token.text \in Direction
                   THEN SetOrAdd(msg, field, node.token.text) ELSE msg, "true")
    [] OTHER ->
         LET old  == IF Has(msg, field) /\ ~ field.repeated
                       THEN msg[field.name] ELSE NoMessage
             done == FillObject(old, field.type, node)
         IN Outcome(SetOrAdd(msg, field, done.msg),
                    IF done.returns = "undefined" THEN "undefined" ELSE "true")

\* handle_json_object: the pairs of any container; the others have none.
FillObject(msg, type, node) ==
  LET Pair(done, i) ==
        LET name   == memory[node.values[2 * i - 1]].token.text
            value  == memory[node.values[2 * i]]
            Element(sofar, a, field) ==
              IF sofar.returns = "true" THEN FillValue(sofar.msg, field, memory[a])
                                        ELSE sofar
            Values(field) ==
              IF ~ field.repeated THEN FillValue(done.msg, field, value)
              ELSE IF value.token.kind # "[" THEN Outcome(done.msg, "false")
              ELSE FoldLeft(LAMBDA sofar, a : Element(sofar, a, field), done, value.values)
        IN IF done.returns # "true" \/ \A f \in FieldsOf(type) : f.name # name
             THEN done
             ELSE Values(CHOOSE f \in FieldsOf(type) : f.name = name)
  IN FoldLeft(Pair, Outcome(msg, "true"), [i \in 1 .. Len(node.values) \div 2 |-> i])

\* fill_message, of an empty message.
Filled(type) == IF result = "accepted" THEN FillObject(NoMessage, type, memory[Root])
                                       ELSE Outcome(NoMessage, "false")

-----------------------------------------------------------------------------
(* get_json                                                                  *)

\* The parts with a comma between them.
Joined(parts) ==
  FoldLeft(LAMBDA text, i : text \o (IF i = 1 THEN <<>> ELSE <<Sign(",")>>) \o parts[i],
           <<>>, [i \in DOMAIN parts |-> i])

RECURSIVE JsonOf(_, _)

\* get_json_value
JsonValueOf(value, type) ==
  CASE type = "int32"     -> <<Number(value)>>
    [] type = "Direction" -> <<Name(value)>>
    [] OTHER              -> JsonOf(value, type)

\* get_json_object: ListFields gives the fields the message has, and of the
\* repeated ones those with elements.
JsonOf(msg, type) ==
  LET listed == SelectSeq(Schema[type], LAMBDA f : Has(msg, f))
      Text(f) == <<Name(f.name), Sign(":")>> \o
        IF f.repeated
          THEN <<Sign("[")>>
               \o Joined([i \in DOMAIN msg[f.name] |-> JsonValueOf(msg[f.name][i], f.type)])
               \o <<Sign("]")>>
          ELSE JsonValueOf(msg[f.name], f.type)
  IN <<Sign("{")>> \o Joined([i \in DOMAIN listed |-> Text(listed[i])]) \o <<Sign("}")>>

=============================================================================
