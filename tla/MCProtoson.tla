----------------------------- MODULE MCProtoson -----------------------------
(***************************************************************************)
(* protoson.cc on every text of up to MaxTokens tokens, and on the texts   *)
(* that get_json and the page write for small messages.                    *)
(***************************************************************************)
EXTENDS Protoson

CONSTANTS MaxTokens,  \* bound on the texts that are not documents
          Names,      \* the strings in them
          Documented  \* are the documents read too?

VARIABLE doc          \* the document being read, or Anything

mcvars == <<vars, doc>>

Anything == [type |-> "", msg |-> NoMessage, text |-> <<>>]

Alphabet == {Sign(k) : k \in Opening \cup Closing \cup {":", ",", "literal", "bad"}}
            \cup {Name(n) : n \in Names} \cup {Number(1)}

-----------------------------------------------------------------------------
(* Documents.                                                               *)

Ints    == {[row |-> 0, col |-> 12], [col |-> 3], NoMessage}
Squares == {<<>>, <<[row |-> 0, col |-> 1]>>, <<[row |-> 2, col |-> 1], [row |-> 0, col |-> 0]>>}

Boards == {[rows |-> 3, cols |-> 4, whos_turn |-> t] : t \in Direction}

\* A board with these squares as the protobuf library keeps it.
WithBlocks(b, s) == IF s = <<>> THEN b ELSE ("blocks" :> s) @@ b

FullRequests    == {[board |-> WithBlocks(b, s)] : b \in Boards, s \in Squares}
PartialRequests == {NoMessage, [board |-> NoMessage], [board |-> [cols |-> 5]],
                    [board |-> [whos_turn |-> "VERTICAL"]]}
                   \cup {[board |-> [blocks |-> <<i, j>>]] : i, j \in Ints}
Responses       == {NoMessage, [score |-> -5],
                    [score |-> 8, v_metrics |-> NoMessage, h_metrics |-> [safe |-> 2]],
                    [v_metrics |-> [safe |-> 1, opp_real |-> 30]]}

\* What solve() of obsequi.js posts for the board: the sizes are the strings of
\* the form, and the list of blocks is there even when it is empty.
Posted(b, s) ==
  LET Pair(name, text) == <<Name(name), Sign(":")>> \o text
      Square(q) == <<Sign("{")>> \o Joined(<<Pair("row", <<Number(q.row)>>),
                                             Pair("col", <<Number(q.col)>>)>>)
                   \o <<Sign("}")>>
  IN <<Sign("{")>> \o Pair("board", <<Sign("{")>>
       \o Joined(<<Pair("rows", <<Digits(b.rows)>>), Pair("cols", <<Digits(b.cols)>>),
                   Pair("blocks", <<Sign("[")>> \o Joined([i \in DOMAIN s |-> Square(s[i])])
                                  \o <<Sign("]")>>),
                   Pair("whos_turn", <<Name(b.whos_turn)>>)>>)
       \o <<Sign("}")>>) \o <<Sign("}")>>

Document(type, msg, text) == [type |-> type, msg |-> msg, text |-> text]

Documents ==
  {Document("Request", [board |-> WithBlocks(b, s)], Posted(b, s)) : b \in Boards, s \in Squares}
  \cup {Document("Request", r, JsonOf(r, "Request")) : r \in FullRequests \cup PartialRequests}
  \cup {Document("Response", r, JsonOf(r, "Response")) : r \in Responses}

MCInit == Init /\ doc \in {Anything} \cup (IF Documented THEN Documents ELSE {})

ReadAny == /\ doc = Anything /\ Len(read) < MaxTokens
           /\ \E token \in Alphabet : Read(token)
           /\ UNCHANGED doc

ReadDocument == /\ doc # Anything /\ Len(read) < Len(doc.text)
                /\ Read(doc.text[Len(read) + 1])
                /\ UNCHANGED doc

EndOfText == /\ doc # Anything => Len(read) = Len(doc.text)
             /\ RunOut
             /\ UNCHANGED doc

MCNext == ReadAny \/ ReadDocument \/ EndOfText

MCSpec == MCInit /\ [][MCNext]_mcvars

-----------------------------------------------------------------------------
(* JSON texts, by their grammar.                                            *)

Upto(s, i)  == SubSeq(s, 1, i)
After(s, i) == SubSeq(s, i + 1, Len(s))
Inside(s)   == SubSeq(s, 2, Len(s) - 1)

RECURSIVE IsValue(_), IsList(_, _)

IsMember(s) == Len(s) > 2 /\ s[1] = "string" /\ s[2] = ":" /\ IsValue(After(s, 2))

\* Values, or members of an object, with commas between them.
IsList(s, object) ==
  \/ IF object THEN IsMember(s) ELSE IsValue(s)
  \/ \E i \in DOMAIN s : /\ s[i] = ","
                         /\ IF object THEN IsMember(Upto(s, i - 1)) ELSE IsValue(Upto(s, i - 1))
                         /\ IsList(After(s, i), object)

Bracketed(s, open, close) == Len(s) > 1 /\ s[1] = open /\ s[Len(s)] = close

IsContainer(s) ==
  \/ Bracketed(s, "[", "]") /\ (Inside(s) = <<>> \/ IsList(Inside(s), FALSE))
  \/ Bracketed(s, "{", "}") /\ (Inside(s) = <<>> \/ IsList(Inside(s), TRUE))

IsValue(s) == (Len(s) = 1 /\ s[1] \in Scalars) \/ IsContainer(s)

ClosersOf(s) == LET open == OpenAfter(s)
                IN Reverse([i \in DOMAIN open |-> IF open[i] = "[" THEN "]" ELSE "}"])

\* Is it the beginning of a text?  If it is, one of these is missing at most,
\* and the brackets that are open.
Completes(s) ==
  \E missing \in {<<>>, <<"number">>, <<":", "number">>, <<"string", ":", "number">>} :
    IsContainer(s \o missing \o ClosersOf(s))

-----------------------------------------------------------------------------
(* parse_json accepts a text when the tokens it has read are an array or an
   object of JSON, and rejects it at the first token after which they can no
   longer become one: what is on the way decides nothing but what was read.   *)
AcceptsJson ==
  read # <<>> =>
    /\ result = "accepted" <=> IsContainer(Kinds(read))
    /\ result = "rejected" <=> ~ Completes(Kinds(read))

(* What get_json writes of a message, and what the page posts for a board,
   fill_message reads back as that message.                                  *)
RoundTrip ==
  doc # Anything =>
    /\ result \in {"reading", "accepted"}
    /\ read = doc.text => /\ result = "accepted"
                          /\ Filled(doc.type) = Outcome(doc.msg, "true")

-----------------------------------------------------------------------------
(* "Returns false if json is invalid or if unable to populate Message."
   (protoson.h:39): a repeated field is populated from an array only, and a
   message when all its fields are.                                          *)
RECURSIVE Populates(_, _)
Populates(node, type) ==
  \A i \in 1 .. Len(node.values) \div 2 : \A f \in FieldsOf(type) :
    f.name = memory[node.values[2 * i - 1]].token.text =>
      LET value == memory[node.values[2 * i]]
      IN IF f.repeated
           THEN /\ value.token.kind = "["
                /\ f.type \in DOMAIN Schema =>
                     \A k \in DOMAIN value.values : Populates(memory[value.values[k]], f.type)
           ELSE f.type \in DOMAIN Schema => Populates(value, f.type)

FillReportsFailure ==
  result = "accepted" =>
    (Filled("Request").returns = "true" => Populates(memory[Root], "Request"))

=============================================================================
