----------------------------- MODULE JsonParser -----------------------------
(***************************************************************************)
(* parse_json of src/obsequi/protoson.cc reads a JSON text into a tree of  *)
(* JsonValues.                                                             *)
(*                                                                         *)
(* A text is a sequence of tokens; white space, escapes and the spelling   *)
(* of numbers are left out, and what parse_json cannot read as a token (an *)
(* unterminated string, a misspelt literal) is a "bad" one.  The tree is   *)
(* kept as the program keeps it, by address: the elements of a vector have *)
(* one address each, and a push_back moves them all.                       *)
(***************************************************************************)
EXTENDS Integers, Sequences

VARIABLES read,    \* the tokens parse_json has read
          memory,  \* the JsonValues that exist, by address
          curr,    \* the container being filled
          result   \* "reading", then what parse_json came to

vars == <<read, memory, curr, result>>

-----------------------------------------------------------------------------
(* Tokens.  The text of a string that holds digits is "", its int is what
   atoi makes of it.                                                         *)

Token(kind, text, int) == [kind |-> kind, text |-> text, int |-> int]
Sign(kind)   == Token(kind, "", 0)
Name(text)   == Token("string", text, 0)
Digits(int)  == Token("string", "", int)
Number(int)  == Token("number", "", int)

Opening == {"[", "{"}
Closing == {"]", "}"}
Scalars == {"string", "number", "literal"}

OpeningOf(kind) == IF kind = "]" THEN "[" ELSE "{"

-----------------------------------------------------------------------------
(* JsonValue.  A container has the kind of its opening token.               *)

Null == <<>>         \* a null pointer
Root == <<0, 1>>     \* the JsonValue fill_message holds

JsonValue(token, parent) ==
  [token |-> token, separator |-> TRUE, values |-> <<>>, parent |-> parent]

\* Mutant: any second value is taken as the name of the next.
NamesUnchecked(node, kind) == node.separator

\* Add takes a value after a separator only; every other value of an object is
\* a name, and a name is a string.
Admits(node, kind) ==
  /\ node.separator
  /\ node.token.kind = "{" /\ Len(node.values) % 2 = 0 => kind = "string"

\* AddNameSeparator and AddValueSeparator.
Separates(node, kind) ==
  /\ ~ node.separator
  /\ IF kind = ":" THEN node.token.kind = "{" /\ Len(node.values) % 2 = 1
                   ELSE node.token.kind = "{" => Len(node.values) % 2 = 0

\* Close
Closes(node, kind) ==
  /\ node.token.kind = OpeningOf(kind)
  /\ \/ Len(node.values) = 0
     \/ /\ ~ node.separator
        /\ node.token.kind = "{" => Len(node.values) % 2 = 0

-----------------------------------------------------------------------------
(* parse_json.  An address is a pair: the token at which the vector was
   allocated and the place in it.                                            *)

Init == read = <<>> /\ memory = <<>> /\ curr = Null /\ result = "reading"

\* push_back moves the elements to a new vector: their old addresses are gone,
\* and the parent pointers of what is below them point there still.
PushBack(token) ==
  LET node  == memory[curr]
      count == Len(node.values)
      new   == [i \in 1 .. count + 1 |-> <<Len(read) + 1, i>>]
      old   == {node.values[i] : i \in 1 .. count}
      fresh == {new[i] : i \in 1 .. count + 1}
  IN [a \in (DOMAIN memory \ old) \cup fresh |->
        IF a \in fresh
          THEN IF a[2] <= count THEN memory[node.values[a[2]]] ELSE JsonValue(token, curr)
          ELSE IF a = curr THEN [node EXCEPT !.values = new, !.separator = FALSE]
          ELSE memory[a]]

\* The first token must open the root.
ReadFirst(token) ==
  /\ read = <<>> /\ token.kind \in Opening
  /\ memory' = [a \in {Root} |-> JsonValue(token, Null)]
  /\ curr' = Root
  /\ UNCHANGED result

ReadScalar(token) ==
  /\ token.kind \in Scalars /\ Admits(memory[curr], token.kind)
  /\ memory' = PushBack(token)
  /\ UNCHANGED <<curr, result>>

\* Mutant: the new container is taken to be the first element.
OpenFirst(token) ==
  /\ token.kind \in Opening /\ Admits(memory[curr], token.kind)
  /\ memory' = PushBack(token)
  /\ curr' = Head(memory'[curr].values)
  /\ UNCHANGED result

ReadOpening(token) ==
  /\ token.kind \in Opening /\ Admits(memory[curr], token.kind)
  /\ memory' = PushBack(token)
  /\ curr' = memory'[curr].values[Len(memory'[curr].values)]
  /\ UNCHANGED result

\* The text ends with the root: what follows it is not looked at.
ReadClosing(token) ==
  /\ token.kind \in Closing /\ Closes(memory[curr], token.kind)
  /\ curr' = memory[curr].parent
  /\ result' = IF curr' = Null THEN "accepted" ELSE "reading"
  /\ UNCHANGED memory

ReadSeparator(token) ==
  /\ token.kind \in {":", ","} /\ Separates(memory[curr], token.kind)
  /\ memory' = [memory EXCEPT ![curr].separator = TRUE]
  /\ UNCHANGED <<curr, result>>

\* Is the token one of those above?
Fits(token) ==
  IF read = <<>> THEN token.kind \in Opening
  ELSE LET node == memory[curr]
       IN \/ token.kind \in Scalars \cup Opening /\ Admits(node, token.kind)
          \/ token.kind \in {":", ","} /\ Separates(node, token.kind)
          \/ token.kind \in Closing /\ Closes(node, token.kind)

Refuse(token) ==
  /\ ~ Fits(token)
  /\ result' = "rejected"
  /\ UNCHANGED <<memory, curr>>

Read(token) ==
  /\ result = "reading"
  /\ read' = Append(read, token)
  /\ \/ ReadFirst(token)
     \/ /\ read # <<>>
        /\ \/ ReadScalar(token) \/ ReadOpening(token)
           \/ ReadClosing(token) \/ ReadSeparator(token)
     \/ Refuse(token)

\* The text ends before the root does.
RunOut == /\ result = "reading"
          /\ result' = "short"
          /\ UNCHANGED <<read, memory, curr>>

\* Any text, of any tokens.
Tokens == [kind : STRING, text : STRING, int : Int]

JsonNext == (\E token \in Tokens : Read(token)) \/ RunOut

JsonSpec == Init /\ [][JsonNext]_vars

-----------------------------------------------------------------------------
(* The containers under way.                                                *)

Kinds(text) == [i \in DOMAIN text |-> text[i].kind]

Nested(open, kind) ==
  IF kind \in Opening THEN Append(open, kind)
  ELSE IF kind \in Closing /\ open # <<>> THEN SubSeq(open, 1, Len(open) - 1)
  ELSE open

\* The brackets that are open after tokens of these kinds, the innermost last.
OpenAfter(kinds) ==
  LET after[n \in 0 .. Len(kinds)] == IF n = 0 THEN <<>> ELSE Nested(after[n - 1], kinds[n])
  IN  after[Len(kinds)]

LastOf(a) == IF a \in DOMAIN memory /\ memory[a].values # <<>>
               THEN memory[a].values[Len(memory[a].values)] ELSE Null

(* The containers that are open are found from the root, each the last value of
   the one around it; they all exist, curr points to the innermost, and their
   parent pointers lead the same way back: no push_back has moved one of them
   away (JsonValue::parent, "not owned", points into a vector).              *)
ParentIsOpen ==
  result = "reading" /\ read # <<>> =>
    LET open == OpenAfter(Kinds(read))
        way[n \in 1 .. Len(open)] == IF n = 1 THEN Root ELSE LastOf(way[n - 1])
    IN  /\ open # <<>> /\ curr = way[Len(open)]
        /\ \A n \in 1 .. Len(open) :
             /\ way[n] \in DOMAIN memory
             /\ memory[way[n]].token.kind = open[n]
             /\ memory[way[n]].parent = IF n = 1 THEN Null ELSE way[n - 1]

=============================================================================
