-------------------------- MODULE JsonParserProofs --------------------------
(***************************************************************************)
(* For every text, however long and deeply nested: the pointers parse_json *)
(* follows while it reads are good.                                        *)
(***************************************************************************)
EXTENDS JsonParser, WellFoundedInduction, SequenceTheorems, TLAPS

-----------------------------------------------------------------------------
(* The inductive invariant.                                                  *)

Address == Nat \X Nat

Node == [token : Tokens, separator : BOOLEAN, values : Seq(Address),
         parent : Address \cup {Null}]

\* What is stored is typed, and allocated when a token was read.
Stored ==
  /\ DOMAIN memory \subseteq Address
  /\ memory \in [DOMAIN memory -> Node]
  /\ \A a \in DOMAIN memory : a[1] <= Len(read)

\* The values of the container at a exist and point back to it.
Holds(a) ==
  \A j \in 1 .. Len(memory[a].values) :
    /\ memory[a].values[j] \in DOMAIN memory
    /\ memory[memory[a].values[j]].parent = a

(* A path from the root over containers that exist, each the last value of the
   one before, in the order they were opened.                                *)
Trail(path) ==
  /\ path \in Seq(Address) /\ path # <<>> /\ path[1] = Root
  /\ \A i \in 1 .. Len(path) : /\ path[i] \in DOMAIN memory
                               /\ memory[path[i]].parent = IF i = 1 THEN Null ELSE path[i - 1]
                               /\ Holds(path[i])
  /\ \A i \in 1 .. Len(path) - 1 : LastOf(path[i]) = path[i + 1]
  /\ \A i, j \in 1 .. Len(path) : i < j => path[i][1] < path[j][1]

Leads(path) == Trail(path) /\ path[Len(path)] = curr

KindsOn(path) == [i \in 1 .. Len(path) |-> memory[path[i]].token.kind]

\* open[n] are the brackets that are open after n tokens.
Nests(open, kinds) ==
  open = [n \in 0 .. Len(kinds) |-> IF n = 0 THEN <<>> ELSE Nested(open[n - 1], kinds[n])]

Nesting ==
  \E open : /\ Nests(open, Kinds(read))
            /\ read # <<>> => \E path : Leads(path) /\ KindsOn(path) = open[Len(read)]

ParserInv == result = "reading" => read \in Seq(Tokens) /\ Stored /\ Nesting

-----------------------------------------------------------------------------
(* Recursive functions.                                                      *)

\* Two functions that start and go on alike are equal.
GoOnAlike(f, g, lo, hi) ==
  /\ f[lo] = g[lo]
  /\ \A n \in lo .. hi : n # lo /\ f[n - 1] = g[n - 1] => f[n] = g[n]

LEMMA AlikeToTheEnd ==
  ASSUME NEW lo \in Int, NEW hi \in Int, NEW f, NEW g, GoOnAlike(f, g, lo, hi)
  PROVE  \A n \in lo .. hi : f[n] = g[n]
<1> SUFFICES ASSUME NEW u \in lo .. hi, f[u] # g[u]
             PROVE  FALSE
  OBVIOUS
<1> DEFINE Differ == {k \in Nat : lo + k <= hi /\ f[lo + k] # g[lo + k]}
<1>1. u - lo \in Differ
  OBVIOUS
<1>2. PICK k \in Differ : \A j \in Differ : ~ (<<j, k>> \in OpToRel(<, Nat))
  <2>1. Differ \in SUBSET Nat /\ Differ # {}
    BY <1>1
  <2> HIDE DEF Differ
  <2> QED
    BY <2>1, NatLessThanWellFounded, WFMin
<1>3. k \in Nat /\ lo + k <= hi /\ f[lo + k] # g[lo + k] /\ k # 0
  BY DEF GoOnAlike
<1>4. k - 1 \in Nat /\ k - 1 < k
  BY <1>3
<1>5. k - 1 \notin Differ
  BY <1>2, <1>3, <1>4 DEF OpToRel
<1>6. f[lo + (k - 1)] = g[lo + (k - 1)] /\ lo + k \in lo .. hi /\ lo + k # lo /\ (lo + k) - 1 = lo + (k - 1)
  BY <1>3, <1>4, <1>5
<1> QED
  BY <1>3, <1>6 DEF GoOnAlike

\* One token more.
LEMMA NestsOneMore ==
  ASSUME NEW T, NEW kinds \in Seq(T), NEW kind \in T, NEW open, Nests(open, kinds)
  PROVE  \E more : /\ Nests(more, Append(kinds, kind))
                   /\ more[Len(kinds) + 1] = Nested(open[Len(kinds)], kind)
<1> DEFINE n == Len(kinds)
           last == Nested(open[n], kind)
           more == [k \in 0 .. (n + 1) |-> IF k = n + 1 THEN last ELSE open[k]]
           longer == Append(kinds, kind)
<1>1. n \in Nat /\ Len(longer) = n + 1 /\ longer[n + 1] = kind
      /\ \A k \in 1 .. n : longer[k] = kinds[k]
  OBVIOUS
<1>2. /\ open[0] = <<>>
      /\ \A k \in 1 .. n : open[k] = Nested(open[k - 1], kinds[k])
  <2>1. open = [k \in 0 .. n |-> IF k = 0 THEN <<>> ELSE Nested(open[k - 1], kinds[k])]
    BY DEF Nests
  <2> QED
    BY <1>1, <2>1
<1> HIDE DEF n, last, longer
<1>3. /\ more[0] = <<>> /\ more[n + 1] = last
      /\ \A k \in 1 .. n : more[k] = open[k] /\ more[k - 1] = open[k - 1]
      /\ more[(n + 1) - 1] = open[n]
  BY <1>1, <1>2
<1>4. more = [k \in 0 .. (n + 1) |-> more[k]]
  OBVIOUS
<1> HIDE DEF more
<1>5. \A k \in 1 .. (n + 1) : more[k] = Nested(more[k - 1], longer[k])
  <2> SUFFICES ASSUME NEW k \in 1 .. (n + 1)
               PROVE  more[k] = Nested(more[k - 1], longer[k])
    OBVIOUS
  <2>1. CASE k = n + 1
    BY <1>1, <1>3, <2>1 DEF last
  <2>2. CASE k \in 1 .. n
    BY <1>1, <1>2, <1>3, <2>2
  <2> QED
    BY <1>1, <2>1, <2>2
<1>6. \A k \in 0 .. (n + 1) :
        more[k] = IF k = 0 THEN <<>> ELSE Nested(more[k - 1], longer[k])
  <2> SUFFICES ASSUME NEW k \in 0 .. (n + 1)
               PROVE  more[k] = IF k = 0 THEN <<>> ELSE Nested(more[k - 1], longer[k])
    OBVIOUS
  <2>1. k = 0 \/ k \in 1 .. (n + 1)
    BY <1>1
  <2>2. k \in 1 .. (n + 1) => k # 0
    BY <1>1
  <2> QED
    BY <1>3, <1>5, <2>1, <2>2
<1>7. Nests(more, longer)
  <2>1. [k \in 0 .. (n + 1) |-> more[k]]
          = [k \in 0 .. (n + 1) |-> IF k = 0 THEN <<>> ELSE Nested(more[k - 1], longer[k])]
    BY <1>6
  <2> QED
    BY <1>1, <1>4, <2>1 DEF Nests
<1> QED
  BY <1>3, <1>7 DEF n, last, longer

LEMMA OpenIsNested ==
  ASSUME NEW T, NEW kinds \in Seq(T), NEW open, Nests(open, kinds)
  PROVE  OpenAfter(kinds) = open[Len(kinds)]
<1> DEFINE n == Len(kinds)
           Solves(f) == f = [k \in 0 .. n |-> IF k = 0 THEN <<>> ELSE Nested(f[k - 1], kinds[k])]
           after == CHOOSE f : Solves(f)
<1>1. n \in Nat
  OBVIOUS
<1>2. Solves(open)
  BY DEF Nests
<1>3. Solves(after)
  BY <1>2
<1>4. OpenAfter(kinds) = after[n]
  BY DEF OpenAfter
<1> HIDE DEF after, n
<1>5. /\ after[0] = open[0]
      /\ \A k \in 0 .. n : k # 0 /\ after[k - 1] = open[k - 1] => after[k] = open[k]
  <2>1. after[0] = <<>> /\ open[0] = <<>>
    BY <1>1, <1>2, <1>3
  <2>2. ASSUME NEW k \in 0 .. n, k # 0, after[k - 1] = open[k - 1]
        PROVE  after[k] = open[k]
    <3>1. after[k] = Nested(after[k - 1], kinds[k])
      BY <1>3, <2>2
    <3>2. open[k] = Nested(open[k - 1], kinds[k])
      BY <1>2, <2>2
    <3> QED
      BY <2>2, <3>1, <3>2
  <2> QED
    BY <2>1, <2>2
<1> HIDE DEF Solves
<1>6. \A k \in 0 .. n : after[k] = open[k]
  <2>1. \A f, g : GoOnAlike(f, g, 0, n) => \A k \in 0 .. n : f[k] = g[k]
    <3>1. 0 \in Int /\ n \in Int
      BY <1>1
    <3> HIDE DEF n
    <3> QED
      BY <3>1, AlikeToTheEnd
  <2>2. GoOnAlike(after, open, 0, n)
    BY <1>5 DEF GoOnAlike
  <2> QED
    BY <2>1, <2>2
<1>7. n \in 0 .. n
  BY <1>1
<1> QED
  BY <1>4, <1>6, <1>7 DEF n

-----------------------------------------------------------------------------
(* The memory.                                                               *)

LEMMA NullIsNoAddress == Null \notin Address
<1>1. ASSUME NEW p \in Address
      PROVE  p # Null
  <2>1. PICK m, k \in Nat : p = <<m, k>>
    BY DEF Address
  <2>2. Len(p) = 2 /\ Len(Null) = 0
    BY <2>1 DEF Null
  <2> QED
    BY <2>2
<1> QED
  BY <1>1

LEMMA Pairs ==
  /\ \A a \in Address : a[1] \in Nat /\ a[2] \in Nat
  /\ \A m, i \in Nat : <<m, i>> \in Address /\ <<m, i>>[1] = m /\ <<m, i>>[2] = i
BY DEF Address

LEMMA NewValue ==
  ASSUME NEW token \in Tokens, NEW parent \in Address \cup {Null}
  PROVE  /\ JsonValue(token, parent) \in Node
         /\ JsonValue(token, parent).parent = parent
         /\ JsonValue(token, parent).token = token
         /\ JsonValue(token, parent).values = <<>>
BY DEF JsonValue, Node

\* Where the next value of the container at c is put.
NewPlace(c) == <<Len(read) + 1, Len(memory[c].values) + 1>>

\* A value is added to the container c: its values are at new addresses, they
\* point back to it, and what is stored elsewhere stays.
LEMMA ValueAdded ==
  ASSUME read \in Seq(Tokens), Stored, NEW c, c = curr, c \in DOMAIN memory, Holds(c),
         memory[c].parent # c,
         NEW token \in Tokens, read' = Append(read, token), memory' = PushBack(token)
  PROVE  /\ Stored' /\ c \in DOMAIN memory' /\ Holds(c)'
         /\ memory'[c].token = memory[c].token /\ memory'[c].parent = memory[c].parent
         /\ memory'[c].values # <<>> /\ LastOf(c)' = NewPlace(c)
         /\ NewPlace(c) \in DOMAIN memory' /\ memory'[NewPlace(c)] = JsonValue(token, c)
         /\ \A a \in DOMAIN memory :
              a # c /\ (\A j \in 1 .. Len(memory[c].values) : a # memory[c].values[j])
                => a \in DOMAIN memory' /\ memory'[a] = memory[a]
<1> DEFINE node  == memory[c]
           vals  == node.values
           n     == Len(vals)
           m     == Len(read) + 1
           new   == [i \in 1 .. n + 1 |-> <<m, i>>]
           old   == {vals[i] : i \in 1 .. n}
           fresh == {new[i] : i \in 1 .. n + 1}
           dom   == (DOMAIN memory \ old) \cup fresh
           held  == [node EXCEPT !.values = new, !.separator = FALSE]
           value == JsonValue(token, c)
<1>1. memory' = [a \in dom |->
                   IF a \in fresh
                     THEN IF a[2] <= n THEN memory[vals[a[2]]] ELSE value
                     ELSE IF a = c THEN held ELSE memory[a]]
  BY DEF PushBack
<1>2. /\ memory \in [DOMAIN memory -> Node] /\ DOMAIN memory \subseteq Address
      /\ \A a \in DOMAIN memory : a[1] <= Len(read)
  BY DEF Stored
<1>3. \A j \in 1 .. n : vals[j] \in DOMAIN memory /\ memory[vals[j]].parent = c
  BY DEF Holds
<1>4. node \in Node
  BY <1>2
<1>5. value \in Node /\ value.parent = c
  BY <1>2, NewValue
<1> HIDE DEF node, value
<1>6. vals \in Seq(Address)
  BY <1>4 DEF Node
<1>7. n \in Nat /\ n + 1 \in Nat
  BY <1>6
<1>8. Len(read) \in Nat /\ m \in Nat /\ Len(read') = m /\ Len(read) < m
  OBVIOUS
<1>9. c \in Address
  BY <1>2
<1> HIDE DEF vals, n, m
<1>10. \A i \in 1 .. n + 1 : i \in Nat /\ new[i] = <<m, i>> /\ new[i] \in Address
                             /\ new[i][1] = m /\ new[i][2] = i /\ new[i] \in fresh
  <2> SUFFICES ASSUME NEW i \in 1 .. n + 1
               PROVE  i \in Nat /\ new[i] = <<m, i>> /\ new[i] \in Address
                      /\ new[i][1] = m /\ new[i][2] = i /\ new[i] \in fresh
    OBVIOUS
  <2>1. i \in Nat
    BY <1>7
  <2>2. new[i] = <<m, i>> /\ new[i] \in fresh
    OBVIOUS
  <2> QED
    BY <1>8, <2>1, <2>2, Pairs
<1>11. new \in Seq(Address) /\ Len(new) = n + 1 /\ new # <<>>
  <2>1. new \in [1 .. n + 1 -> Address]
    BY <1>10
  <2> HIDE DEF new
  <2> QED
    BY <1>7, <2>1
<1>12. \A a \in fresh : a \in Address /\ a[1] = m
  BY <1>10 DEF fresh
<1> HIDE DEF new
<1>13. /\ held \in Node /\ held.values = new
       /\ held.token = node.token /\ held.parent = node.parent
  BY <1>4, <1>11 DEF Node
<1>14. DOMAIN memory \cap fresh = {}
  <2>1. \A a \in DOMAIN memory : a[1] # m
    BY <1>2, <1>8, Pairs
  <2> QED
    BY <1>12, <2>1
<1> HIDE DEF held
<1>15. \A i \in 1 .. n + 1 : /\ new[i] \in dom
                             /\ memory'[new[i]] = IF i <= n THEN memory[vals[i]] ELSE value
  <2> SUFFICES ASSUME NEW i \in 1 .. n + 1
               PROVE  /\ new[i] \in dom
                      /\ memory'[new[i]] = IF i <= n THEN memory[vals[i]] ELSE value
    OBVIOUS
  <2> DEFINE a == new[i]
  <2>1. a \in fresh /\ a \in dom /\ a[2] = i
    BY <1>10
  <2> HIDE DEF a, fresh, dom
  <2>2. memory'[a] = IF a[2] <= n THEN memory[vals[a[2]]] ELSE value
    BY <1>1, <2>1
  <2> QED
    BY <2>1, <2>2 DEF a
<1>16. \A a \in DOMAIN memory : a # c /\ a \notin old => a \in dom /\ memory'[a] = memory[a]
  BY <1>1, <1>14
<1>17. c \in dom /\ c \notin fresh /\ memory'[c] = held
  <2>1. c \notin old
    BY <1>3 DEF old
  <2>2. c \in dom /\ c \notin fresh
    BY <1>14, <2>1
  <2> QED
    BY <1>1, <2>2
<1> HIDE DEF old
<1>18. dom \subseteq Address /\ DOMAIN memory' = dom /\ memory' = [a \in dom |-> memory'[a]]
  BY <1>1, <1>2, <1>12
<1>19. \A a \in dom : a \in fresh \/ a = c \/ (a \in DOMAIN memory /\ a # c /\ a \notin old)
  OBVIOUS
<1>20. \A a \in fresh : memory'[a] \in Node
  <2> SUFFICES ASSUME NEW i \in 1 .. n + 1
               PROVE  memory'[new[i]] \in Node
    BY DEF fresh
  <2>1. CASE i <= n
    <3>1. i \in 1 .. n
      BY <1>7, <2>1
    <3>2. memory[vals[i]] \in Node
      BY <1>2, <1>3, <3>1
    <3> QED
      BY <1>15, <2>1, <3>2
  <2>2. CASE ~ (i <= n)
    BY <1>5, <1>15, <2>2
  <2> QED
    BY <2>1, <2>2
<1> HIDE DEF dom, fresh
<1>21. \A a \in dom : memory'[a] \in Node
  <2>1. \A a \in DOMAIN memory : memory[a] \in Node
    BY <1>2
  <2> QED
    BY <1>13, <1>16, <1>17, <1>19, <1>20, <2>1
<1>22. \A a \in dom : a[1] <= m
  <2>1. \A a \in DOMAIN memory : a[1] <= m
    BY <1>2, <1>8, Pairs
  <2>2. \A a \in fresh : a[1] <= m
    BY <1>8, <1>12
  <2> QED
    BY <1>17, <1>19, <2>1, <2>2
<1>23. Stored'
  BY <1>8, <1>18, <1>21, <1>22 DEF Stored
<1>24. memory'[c].values = new
  BY <1>13, <1>17
<1>25. \A j \in 1 .. n + 1 : new[j] \in dom /\ memory'[new[j]].parent = c
  <2> SUFFICES ASSUME NEW j \in 1 .. n + 1
               PROVE  memory'[new[j]].parent = c
    BY <1>15
  <2>1. CASE j <= n
    <3>1. j \in 1 .. n
      BY <1>7, <2>1
    <3> QED
      BY <1>3, <1>15, <2>1, <3>1
  <2>2. CASE ~ (j <= n)
    BY <1>5, <1>15, <2>2
  <2> QED
    BY <2>1, <2>2
<1>26. Holds(c)'
  BY <1>11, <1>18, <1>24, <1>25 DEF Holds
<1>27. n + 1 \in 1 .. n + 1 /\ ~ (n + 1 <= n)
  BY <1>7
<1>28. new[n + 1] = <<m, n + 1>> /\ new[n + 1] \in dom /\ memory'[new[n + 1]] = value
  BY <1>10, <1>15, <1>27
<1>29. LastOf(c)' = new[n + 1]
  BY <1>11, <1>17, <1>18, <1>24 DEF LastOf
<1>30. c \in DOMAIN memory' /\ memory'[c].values # <<>>
       /\ memory'[c].token = node.token /\ memory'[c].parent = node.parent
  BY <1>11, <1>13, <1>17, <1>18, <1>24
<1>31. \A a \in DOMAIN memory :
         a # c /\ (\A j \in 1 .. n : a # vals[j]) => a \in DOMAIN memory' /\ memory'[a] = memory[a]
  BY <1>16, <1>18 DEF old
<1> QED
  BY <1>23, <1>26, <1>28, <1>29, <1>30, <1>31, <1>18 DEF m, n, vals, node, value, NewPlace

-----------------------------------------------------------------------------
(* The way back.                                                             *)

\* The innermost container is none of those around it, nor a value of one of its own.
LEMMA Innermost ==
  ASSUME Stored, NEW path, Leads(path)
  PROVE  /\ Len(path) \in Nat \ {0} /\ path[Len(path)] = curr
         /\ curr \in DOMAIN memory /\ curr \in Address /\ Holds(curr)
         /\ memory[curr].parent # curr
         /\ \A i \in 1 .. Len(path) - 1 :
              /\ path[i] # curr
              /\ \A j \in 1 .. Len(memory[curr].values) : path[i] # memory[curr].values[j]
<1> DEFINE n == Len(path)
<1>1. /\ path \in Seq(Address) /\ path # <<>>
      /\ \A i \in 1 .. n : /\ path[i] \in DOMAIN memory
                           /\ memory[path[i]].parent = IF i = 1 THEN Null ELSE path[i - 1]
                           /\ Holds(path[i])
      /\ \A i, j \in 1 .. n : i < j => path[i][1] < path[j][1]
      /\ path[n] = curr
  BY DEF Leads, Trail
<1>2. n \in Nat \ {0} /\ n \in 1 .. n /\ \A i \in 1 .. n : path[i] \in Address
  BY <1>1
<1> HIDE DEF n
<1>3. curr \in DOMAIN memory /\ curr \in Address /\ Holds(curr)
  BY <1>1, <1>2
<1>4. \A i \in 1 .. n - 1 : path[i] # curr
  <2> SUFFICES ASSUME NEW i \in 1 .. n - 1, path[i] = curr
               PROVE  FALSE
    OBVIOUS
  <2>1. i \in 1 .. n /\ i < n
    BY <1>2
  <2>2. path[i][1] < path[n][1]
    BY <1>1, <1>2, <2>1
  <2>3. path[i] = path[n] /\ path[n][1] \in Nat
    BY <1>1, <1>2, Pairs
  <2> QED
    BY <2>2, <2>3
<1>5. \A i \in 1 .. n : memory[path[i]].parent # curr
  <2> SUFFICES ASSUME NEW i \in 1 .. n
               PROVE  memory[path[i]].parent # curr
    OBVIOUS
  <2>1. CASE i = 1
    BY <1>1, <1>3, <2>1, NullIsNoAddress
  <2>2. CASE i # 1
    <3>1. i - 1 \in 1 .. n - 1
      BY <1>2, <2>2
    <3> QED
      BY <1>1, <1>4, <2>2, <3>1
  <2> QED
    BY <2>1, <2>2
<1>6. memory[curr].parent # curr
  BY <1>1, <1>2, <1>5
<1>7. \A i \in 1 .. n - 1 : \A j \in 1 .. Len(memory[curr].values) :
        path[i] # memory[curr].values[j]
  <2>1. \A i \in 1 .. n - 1 : i \in 1 .. n
    BY <1>2
  <2>2. \A j \in 1 .. Len(memory[curr].values) : memory[memory[curr].values[j]].parent = curr
    BY <1>3 DEF Holds
  <2> QED
    BY <1>5, <2>1, <2>2
<1> QED
  BY <1>1, <1>2, <1>3, <1>4, <1>6, <1>7 DEF n

\* What a path needs of the memory: that the containers on it keep their place.
LEMMA TrailStays ==
  ASSUME NEW path, Trail(path),
         \A i \in 1 .. Len(path) :
           /\ path[i] \in DOMAIN memory'
           /\ memory'[path[i]].token = memory[path[i]].token
           /\ memory'[path[i]].parent = memory[path[i]].parent
           /\ Holds(path[i])',
         \A i \in 1 .. Len(path) - 1 : LastOf(path[i])' = LastOf(path[i])
  PROVE  Trail(path)' /\ KindsOn(path)' = KindsOn(path)
<1>1. Trail(path)'
  BY DEF Trail
<1>2. KindsOn(path)' = KindsOn(path)
  BY DEF KindsOn
<1> QED
  BY <1>1, <1>2

LEMMA PathStays ==
  ASSUME read \in Seq(Tokens), Stored, NEW path, Leads(path), NEW c, c = curr,
         NEW token \in Tokens, read' = Append(read, token), memory' = PushBack(token)
  PROVE  /\ Stored' /\ Trail(path)' /\ KindsOn(path)' = KindsOn(path)
         /\ c \in DOMAIN memory' /\ Holds(c)' /\ memory'[c].values # <<>>
         /\ LastOf(c)' = NewPlace(c) /\ NewPlace(c) \in DOMAIN memory'
         /\ memory'[NewPlace(c)] = JsonValue(token, c)
<1> DEFINE n == Len(path)
           vals == memory[c].values
<1>1. /\ n \in Nat \ {0} /\ path[n] = c /\ c \in DOMAIN memory /\ Holds(c)
      /\ memory[c].parent # c
      /\ \A i \in 1 .. n - 1 : path[i] # c /\ \A j \in 1 .. Len(vals) : path[i] # vals[j]
  BY Innermost
<1>2. /\ Stored' /\ c \in DOMAIN memory' /\ Holds(c)'
      /\ memory'[c].token = memory[c].token /\ memory'[c].parent = memory[c].parent
      /\ memory'[c].values # <<>> /\ LastOf(c)' = NewPlace(c)
      /\ NewPlace(c) \in DOMAIN memory' /\ memory'[NewPlace(c)] = JsonValue(token, c)
      /\ \A a \in DOMAIN memory :
           a # c /\ (\A j \in 1 .. Len(vals) : a # vals[j])
             => a \in DOMAIN memory' /\ memory'[a] = memory[a]
  BY <1>1, ValueAdded
<1>3. /\ \A i \in 1 .. n : path[i] \in DOMAIN memory /\ Holds(path[i])
      /\ \A j \in 1 .. Len(vals) : memory[vals[j]].parent = c
  BY <1>1 DEF Leads, Trail, Holds
<1> HIDE DEF n, vals
<1>4. \A i \in 1 .. n - 1 : /\ i \in 1 .. n /\ path[i] # c /\ path[i] \in DOMAIN memory'
                            /\ memory'[path[i]] = memory[path[i]]
  BY <1>1, <1>2, <1>3
<1>5. ASSUME NEW i \in 1 .. n - 1
      PROVE  Holds(path[i])'
  <2>1. ASSUME NEW w, w \in DOMAIN memory, memory[w].parent = path[i]
        PROVE  w \in DOMAIN memory' /\ memory'[w].parent = path[i]
    <3>1. CASE w = c
      BY <1>2, <2>1, <3>1
    <3>2. CASE w # c
      <4>1. \A k \in 1 .. Len(vals) : w # vals[k]
        BY <1>3, <1>4, <2>1
      <4> QED
        BY <1>2, <2>1, <3>2, <4>1
    <3> QED
      BY <3>1, <3>2
  <2> QED
    BY <1>3, <1>4, <2>1 DEF Holds
<1>6. \A i \in 1 .. n - 1 : LastOf(path[i])' = LastOf(path[i])
  BY <1>3, <1>4 DEF LastOf
<1>7. \A i \in 1 .. n : i = n \/ i \in 1 .. n - 1
  BY <1>1
<1>8. \A i \in 1 .. n :
        /\ path[i] \in DOMAIN memory'
        /\ memory'[path[i]].token = memory[path[i]].token
        /\ memory'[path[i]].parent = memory[path[i]].parent
        /\ Holds(path[i])'
  BY <1>1, <1>2, <1>4, <1>5, <1>7
<1>9. Trail(path)
  BY DEF Leads
<1>10. Trail(path)' /\ KindsOn(path)' = KindsOn(path)
  BY <1>6, <1>8, <1>9, TrailStays DEF n
<1> QED
  BY <1>2, <1>10

-----------------------------------------------------------------------------
(* The steps.                                                                *)

\* The path to a new container.
LEMMA PathOpens ==
  ASSUME read \in Seq(Tokens), Stored, NEW path, Leads(path), NEW c, c = curr, NEW last,
         last = NewPlace(c),
         NEW token \in Tokens, read' = Append(read, token), memory' = PushBack(token),
         curr' = last
  PROVE  /\ Leads(Append(path, last))'
         /\ KindsOn(Append(path, last))' = Append(KindsOn(path), token.kind)
<1> DEFINE n == Len(path)
           longer == Append(path, last)
<1>1. /\ Stored' /\ Trail(path)' /\ KindsOn(path)' = KindsOn(path)
      /\ LastOf(c)' = last /\ last \in DOMAIN memory' /\ memory'[last] = JsonValue(token, c)
  BY PathStays
<1>2. n \in Nat \ {0} /\ path[n] = c /\ path \in Seq(Address) /\ c \in Address
  BY Innermost DEF Leads, Trail
<1>3. last \in Address
  BY <1>1 DEF Stored
<1>4. /\ longer \in Seq(Address) /\ Len(longer) = n + 1 /\ longer[n + 1] = last
      /\ \A i \in 1 .. n : longer[i] = path[i]
  BY <1>2, <1>3
<1>5. /\ path[1] = Root
      /\ \A i \in 1 .. n : /\ path[i] \in DOMAIN memory'
                           /\ memory'[path[i]].parent = IF i = 1 THEN Null ELSE path[i - 1]
                           /\ Holds(path[i])'
      /\ \A i \in 1 .. n - 1 : LastOf(path[i])' = path[i + 1]
      /\ \A i, j \in 1 .. n : i < j => path[i][1] < path[j][1]
  BY <1>1 DEF Trail
<1>6. /\ memory'[last].parent = c /\ memory'[last].token = token /\ memory'[last].values = <<>>
  BY <1>1, <1>2, NewValue
<1>7. \A i \in 1 .. n : path[i][1] < last[1]
  <2>1. \A i \in 1 .. n : path[i] \in DOMAIN memory /\ path[i] \in Address
    BY <1>2 DEF Leads, Trail
  <2>2. \A i \in 1 .. n : path[i][1] <= Len(read) /\ path[i][1] \in Nat
    BY <2>1, Pairs DEF Stored
  <2>3. last[1] = Len(read) + 1 /\ Len(read) \in Nat
    BY DEF NewPlace
  <2> QED
    BY <2>2, <2>3
<1> HIDE DEF n, longer
<1>8. Holds(last)'
  <2>1. Len(memory'[last].values) = 0
    BY <1>6
  <2> QED
    BY <2>1 DEF Holds
<1>9. \A i \in 1 .. n + 1 : i = n + 1 \/ i \in 1 .. n
  BY <1>2
<1>10. n \in 1 .. n /\ n + 1 # 1 /\ (n + 1) - 1 = n /\ n + 1 \in 1 .. n + 1
  BY <1>2
<1>11. \A i \in 1 .. n + 1 :
         /\ longer[i] \in DOMAIN memory'
         /\ memory'[longer[i]].parent = IF i = 1 THEN Null ELSE longer[i - 1]
         /\ Holds(longer[i])'
  <2>1. ASSUME NEW i \in 1 .. n
        PROVE  /\ longer[i] \in DOMAIN memory'
               /\ memory'[longer[i]].parent = IF i = 1 THEN Null ELSE longer[i - 1]
               /\ Holds(longer[i])'
    <3>1. i # 1 => i - 1 \in 1 .. n
      BY <1>2
    <3> QED
      BY <1>4, <1>5, <3>1
  <2>2. /\ longer[n + 1] \in DOMAIN memory' /\ Holds(longer[n + 1])'
        /\ memory'[longer[n + 1]].parent = longer[(n + 1) - 1]
    BY <1>1, <1>2, <1>4, <1>6, <1>8, <1>10
  <2> QED
    BY <1>9, <1>10, <2>1, <2>2
<1>12. \A i \in 1 .. (n + 1) - 1 : LastOf(longer[i])' = longer[i + 1]
  <2> SUFFICES ASSUME NEW i \in 1 .. n
               PROVE  LastOf(longer[i])' = longer[i + 1]
    BY <1>10
  <2>1. CASE i = n
    BY <1>1, <1>2, <1>4, <1>10, <2>1
  <2>2. CASE i # n
    <3>1. i \in 1 .. n - 1 /\ i + 1 \in 1 .. n
      BY <1>2, <2>2
    <3> QED
      BY <1>4, <1>5, <3>1
  <2> QED
    BY <2>1, <2>2
<1>13. \A i, j \in 1 .. n + 1 : i < j => longer[i][1] < longer[j][1]
  <2> SUFFICES ASSUME NEW i \in 1 .. n + 1, NEW j \in 1 .. n + 1, i < j
               PROVE  longer[i][1] < longer[j][1]
    OBVIOUS
  <2>1. i \in 1 .. n
    BY <1>2
  <2>2. CASE j = n + 1
    BY <1>4, <1>7, <2>1, <2>2
  <2>3. CASE j \in 1 .. n
    BY <1>4, <1>5, <2>1, <2>3
  <2> QED
    BY <1>9, <2>2, <2>3
<1>14. longer # <<>> /\ longer[1] = Root
  <2>1. 1 \in 1 .. n /\ n + 1 # 0
    BY <1>2
  <2>2. Len(longer) # 0
    BY <1>2, <1>4
  <2> QED
    BY <1>4, <1>5, <2>1, <2>2
<1>15. Leads(longer)'
  BY <1>4, <1>11, <1>12, <1>13, <1>14 DEF Leads, Trail
<1>16. KindsOn(longer)' = Append(KindsOn(path), token.kind)
  <2>1. KindsOn(longer)' = [i \in 1 .. n + 1 |-> memory'[longer[i]].token.kind]
    BY <1>4 DEF KindsOn
  <2>2. KindsOn(path) = [i \in 1 .. n |-> memory'[path[i]].token.kind]
    BY <1>1 DEF KindsOn, n
  <2> DEFINE kind(i) == memory'[path[i]].token.kind
             kinds == [i \in 1 .. n |-> kind(i)]
             more == [i \in 1 .. n + 1 |-> memory'[longer[i]].token.kind]
  <2>3. \A i \in 1 .. n : more[i] = kind(i)
    BY <1>2, <1>4
  <2>4. more[n + 1] = token.kind
    BY <1>4, <1>6, <1>10
  <2> HIDE DEF kind
  <2>5. DOMAIN more = 1 .. n + 1 /\ more = [i \in 1 .. n + 1 |-> more[i]]
    OBVIOUS
  <2> HIDE DEF more
  <2>6. more = Append(kinds, token.kind)
    <3>1. \A i \in 1 .. n + 1 : more[i] = IF i <= n THEN kinds[i] ELSE token.kind
      BY <1>2, <1>9, <2>3, <2>4
    <3>2. kinds \in Seq({kind(i) : i \in 1 .. n}) /\ Len(kinds) = n
      BY <1>2
    <3>3. Append(kinds, token.kind)
            = [i \in 1 .. n + 1 |-> IF i <= n THEN kinds[i] ELSE token.kind]
      BY <1>2, <3>2
    <3> QED
      BY <2>5, <3>1, <3>3
  <2> QED
    BY <2>1, <2>2, <2>6 DEF more, kind
<1> QED
  BY <1>15, <1>16 DEF longer

\* The path back from a container that closes.
LEMMA PathCloses ==
  ASSUME read \in Seq(Tokens), Stored, NEW path, Leads(path), UNCHANGED memory,
         NEW token \in Tokens, read' = Append(read, token),
         curr' = memory[curr].parent, curr' # Null
  PROVE  /\ Stored' /\ Leads(SubSeq(path, 1, Len(path) - 1))'
         /\ KindsOn(SubSeq(path, 1, Len(path) - 1))' = SubSeq(KindsOn(path), 1, Len(KindsOn(path)) - 1)
<1> DEFINE n == Len(path)
           shorter == SubSeq(path, 1, n - 1)
<1>1. /\ path \in Seq(Address) /\ n \in Nat \ {0} /\ path[n] = curr /\ path[1] = Root
      /\ \A i \in 1 .. n : /\ path[i] \in DOMAIN memory
                           /\ memory[path[i]].parent = IF i = 1 THEN Null ELSE path[i - 1]
                           /\ Holds(path[i])
      /\ \A i \in 1 .. n - 1 : LastOf(path[i]) = path[i + 1]
      /\ \A i, j \in 1 .. n : i < j => path[i][1] < path[j][1]
  BY Innermost DEF Leads, Trail
<1>2. n \in 1 .. n
  BY <1>1
<1>3. n # 1 /\ curr' = path[n - 1]
  BY <1>1, <1>2
<1>4. Stored'
  <2>1. \A a \in DOMAIN memory : a[1] \in Nat /\ a[1] <= Len(read)
    BY Pairs DEF Stored
  <2>2. Len(read) \in Nat /\ Len(read') = Len(read) + 1
    OBVIOUS
  <2>3. \A a \in DOMAIN memory : a[1] <= Len(read')
    BY <2>1, <2>2
  <2> QED
    BY <2>3 DEF Stored
<1>5. /\ shorter \in Seq(Address) /\ Len(shorter) = n - 1
      /\ \A i \in 1 .. n - 1 : shorter[i] = path[i]
  BY <1>1
<1> HIDE DEF n, shorter
<1>6. /\ \A i \in 1 .. n - 1 : i \in 1 .. n /\ (i # 1 => i - 1 \in 1 .. n - 1)
      /\ \A i \in 1 .. (n - 1) - 1 : i \in 1 .. n - 1 /\ i + 1 \in 1 .. n - 1
      /\ 1 \in 1 .. n - 1 /\ n - 1 \in 1 .. n - 1 /\ n - 1 # 0
  BY <1>1, <1>3
<1>7. shorter # <<>> /\ shorter[1] = Root
  <2>1. Len(shorter) # 0
    BY <1>5, <1>6
  <2> QED
    BY <1>1, <1>5, <1>6, <2>1
<1>8. \A i \in 1 .. n - 1 :
        /\ shorter[i] \in DOMAIN memory
        /\ memory[shorter[i]].parent = IF i = 1 THEN Null ELSE shorter[i - 1]
        /\ Holds(shorter[i])
  BY <1>1, <1>5, <1>6
<1>9. /\ \A i \in 1 .. (n - 1) - 1 : LastOf(shorter[i]) = shorter[i + 1]
      /\ \A i, j \in 1 .. n - 1 : i < j => shorter[i][1] < shorter[j][1]
  BY <1>1, <1>5, <1>6
<1>10. Trail(shorter)
  BY <1>5, <1>7, <1>8, <1>9 DEF Trail
<1>11. Trail(shorter)' /\ KindsOn(shorter)' = KindsOn(shorter)
  BY <1>10 DEF Trail, KindsOn, Holds, LastOf
<1>12. Leads(shorter)'
  BY <1>3, <1>5, <1>6, <1>11 DEF Leads
<1>13. KindsOn(shorter) = SubSeq(KindsOn(path), 1, Len(KindsOn(path)) - 1)
  <2> DEFINE kind(i) == memory[path[i]].token.kind
             kinds == [i \in 1 .. n |-> kind(i)]
  <2>1. KindsOn(shorter) = [i \in 1 .. n - 1 |-> kind(i)]
    BY <1>5 DEF KindsOn
  <2>2. KindsOn(path) = kinds
    BY DEF KindsOn, n
  <2> HIDE DEF kind
  <2>3. kinds \in Seq({kind(i) : i \in 1 .. n}) /\ Len(kinds) = n
    <3> DEFINE S == {kind(i) : i \in 1 .. n}
    <3>1. n \in Nat /\ kinds \in [1 .. n -> S]
      BY <1>1
    <3> HIDE DEF kinds, S
    <3>2. kinds \in Seq(S) /\ Len(kinds) = n
      BY <3>1
    <3> QED
      BY <3>2 DEF S
  <2>4. SubSeq(kinds, 1, n - 1) = [i \in 1 .. n - 1 |-> kind(i)]
    BY <1>1, <1>6, <2>3
  <2> QED
    BY <2>1, <2>2, <2>3, <2>4
<1> QED
  BY <1>4, <1>11, <1>12, <1>13 DEF shorter, n

\* A separator changes no pointer.
LEMMA PathSeparates ==
  ASSUME read \in Seq(Tokens), Stored, NEW path, Leads(path), UNCHANGED curr,
         NEW token \in Tokens, read' = Append(read, token),
         memory' = [memory EXCEPT ![curr].separator = TRUE]
  PROVE  Stored' /\ Leads(path)' /\ KindsOn(path)' = KindsOn(path)
<1>1. /\ Trail(path) /\ path[Len(path)] = curr /\ curr \in DOMAIN memory
      /\ \A i \in 1 .. Len(path) : path[i] \in DOMAIN memory /\ Holds(path[i])
  BY Innermost DEF Leads, Trail
<1>2. memory \in [DOMAIN memory -> Node] /\ DOMAIN memory' = DOMAIN memory
  BY DEF Stored
<1>3. \A a \in DOMAIN memory :
        /\ memory'[a] \in Node
        /\ memory'[a].token = memory[a].token /\ memory'[a].parent = memory[a].parent
        /\ memory'[a].values = memory[a].values
  <2> SUFFICES ASSUME NEW a \in DOMAIN memory
               PROVE  /\ memory'[a] \in Node
                      /\ memory'[a].token = memory[a].token
                      /\ memory'[a].parent = memory[a].parent
                      /\ memory'[a].values = memory[a].values
    OBVIOUS
  <2> DEFINE node == memory[a]
  <2>1. node \in Node
    BY <1>2
  <2>2. memory'[a] = IF a = curr THEN [node EXCEPT !.separator = TRUE] ELSE node
    BY <1>1
  <2> HIDE DEF node
  <2>3. LET more == [node EXCEPT !.separator = TRUE]
        IN  /\ more \in Node /\ more.token = node.token
            /\ more.parent = node.parent /\ more.values = node.values
    BY <2>1 DEF Node
  <2>4. /\ memory'[a] \in Node /\ memory'[a].token = node.token
        /\ memory'[a].parent = node.parent /\ memory'[a].values = node.values
    BY <2>1, <2>2, <2>3
  <2> QED
    BY <2>4 DEF node
<1>4. Stored'
  <2>1. \A a \in DOMAIN memory : a[1] \in Nat /\ a[1] <= Len(read)
    BY Pairs DEF Stored
  <2>2. Len(read) \in Nat /\ Len(read') = Len(read) + 1
    OBVIOUS
  <2>3. \A a \in DOMAIN memory : a[1] <= Len(read')
    BY <2>1, <2>2
  <2>4. memory' \in [DOMAIN memory -> Node]
    <3>1. memory' = [a \in DOMAIN memory |-> memory'[a]]
      BY <1>2
    <3> QED
      BY <1>3, <3>1
  <2>5. DOMAIN memory \subseteq Address
    BY DEF Stored
  <2> QED
    BY <1>2, <2>3, <2>4, <2>5 DEF Stored
<1>5. \A i \in 1 .. Len(path) : Holds(path[i])'
  BY <1>1, <1>2, <1>3 DEF Holds
<1>6. \A i \in 1 .. Len(path) - 1 : LastOf(path[i])' = LastOf(path[i])
  BY <1>2, <1>3 DEF LastOf
<1>7. Trail(path)' /\ KindsOn(path)' = KindsOn(path)
  BY <1>1, <1>2, <1>3, <1>5, <1>6, TrailStays
<1> QED
  BY <1>1, <1>4, <1>7 DEF Leads

\* The root.
LEMMA PathStarts ==
  ASSUME NEW token \in Tokens, read' = <<token>>, curr' = Root,
         memory' = [a \in {Root} |-> JsonValue(token, Null)]
  PROVE  Stored' /\ Leads(<<Root>>)' /\ KindsOn(<<Root>>)' = <<token.kind>>
<1>1. Root \in Address /\ Root[1] = 0
  BY Pairs DEF Root
<1>2. DOMAIN memory' = {Root} /\ memory'[Root] = JsonValue(token, Null)
  OBVIOUS
<1>3. /\ memory'[Root] \in Node /\ memory'[Root].parent = Null
      /\ memory'[Root].token = token /\ memory'[Root].values = <<>>
  BY <1>2, NewValue
<1>4. Stored'
  <2>1. Len(read') = 1
    OBVIOUS
  <2>2. \A a \in {Root} : a \in Address /\ a[1] <= 1
    BY <1>1
  <2>3. memory' \in [{Root} -> Node]
    BY <1>2, <1>3
  <2> QED
    BY <1>2, <2>1, <2>2, <2>3 DEF Stored
<1>5. Holds(Root)'
  <2>1. Len(memory'[Root].values) = 0
    BY <1>3
  <2> QED
    BY <2>1 DEF Holds
<1> DEFINE path == <<Root>>
<1>6. path \in Seq(Address) /\ path # <<>> /\ path[1] = Root /\ Len(path) = 1
  BY <1>1
<1> HIDE DEF path
<1>7. 1 .. Len(path) = {1} /\ 1 .. Len(path) - 1 = {}
  BY <1>6
<1>8. /\ \A i \in {1} : /\ path[i] \in DOMAIN memory'
                        /\ memory'[path[i]].parent = IF i = 1 THEN Null ELSE path[i - 1]
                        /\ Holds(path[i])'
      /\ \A i, j \in {1} : ~ (i < j)
  BY <1>2, <1>3, <1>5, <1>6
<1>9. Leads(path)'
  BY <1>6, <1>7, <1>8 DEF Leads, Trail
<1>10. KindsOn(path)' = <<token.kind>>
  <2>1. KindsOn(path)' = [i \in 1 .. 1 |-> memory'[path[i]].token.kind]
    BY <1>6 DEF KindsOn
  <2>2. \A i \in 1 .. 1 : memory'[path[i]].token.kind = token.kind
    BY <1>3, <1>6
  <2>3. KindsOn(path)' = [i \in 1 .. 1 |-> token.kind]
    BY <2>1, <2>2
  <2> QED
    BY <2>3
<1> QED
  BY <1>4, <1>9, <1>10 DEF path

-----------------------------------------------------------------------------
(* The invariant.                                                            *)

LEMMA KindsOfText ==
  ASSUME NEW text \in Seq(Tokens)
  PROVE  Kinds(text) \in Seq(STRING) /\ Len(Kinds(text)) = Len(text)
<1>1. \A token \in Tokens : token.kind \in STRING
  BY DEF Tokens
<1>2. \A i \in 1 .. Len(text) : text[i] \in Tokens
  OBVIOUS
<1>3. Len(text) \in Nat /\ Kinds(text) \in [1 .. Len(text) -> STRING]
  BY <1>1, <1>2 DEF Kinds
<1> QED
  BY <1>3

\* One token more, and a path over what is open then.
LEMMA NestingGoesOn ==
  ASSUME read \in Seq(Tokens), NEW token \in Tokens, read' = Append(read, token),
         NEW open, Nests(open, Kinds(read)),
         NEW path, Leads(path)', KindsOn(path)' = Nested(open[Len(read)], token.kind)
  PROVE  Nesting'
<1>1. Kinds(read) \in Seq(STRING) /\ Len(Kinds(read)) = Len(read) /\ Len(read) \in Nat
  BY KindsOfText
<1>2. Kinds(read') = Append(Kinds(read), token.kind) /\ Len(read') = Len(read) + 1
  <2>1. Len(read') = Len(read) + 1 /\ DOMAIN read' = 1 .. Len(read) + 1
    OBVIOUS
  <2>2. \A i \in 1 .. Len(read) + 1 :
          read'[i].kind = IF i <= Len(read) THEN read[i].kind ELSE token.kind
    BY <1>1
  <2>3. Append(Kinds(read), token.kind)
          = [i \in 1 .. Len(read) + 1 |-> IF i <= Len(read) THEN Kinds(read)[i] ELSE token.kind]
    BY <1>1
  <2>4. \A i \in 1 .. Len(read) : Kinds(read)[i] = read[i].kind
    BY DEF Kinds
  <2>5. \A i \in 1 .. Len(read) + 1 :
          (IF i <= Len(read) THEN Kinds(read)[i] ELSE token.kind) = read'[i].kind
    BY <1>1, <2>2, <2>4
  <2>6. Kinds(read') = [i \in 1 .. Len(read) + 1 |-> read'[i].kind]
    BY <2>1 DEF Kinds
  <2> QED
    BY <2>1, <2>3, <2>5, <2>6
<1>3. token.kind \in STRING
  <2>1. \A t \in Tokens : t.kind \in STRING
    BY DEF Tokens
  <2> QED
    BY <2>1
<1>4. PICK more : /\ Nests(more, Append(Kinds(read), token.kind))
                  /\ more[Len(Kinds(read)) + 1] = Nested(open[Len(Kinds(read))], token.kind)
  BY <1>1, <1>3, NestsOneMore
<1>5. Nests(more, Kinds(read))' /\ more[Len(read')] = Nested(open[Len(read)], token.kind)
  BY <1>1, <1>2, <1>4 DEF Nests
<1>6. Leads(path)' /\ KindsOn(path)' = more[Len(read')]
  BY <1>5
<1> QED
  BY <1>5, <1>6 DEF Nesting

LEMMA KindsAre == Opening \cap Closing = {} /\ Opening \cap Scalars = {} /\ Closing \cap Scalars = {}
                  /\ \A kind \in {":", ","} : kind \notin Opening /\ kind \notin Closing
BY DEF Opening, Closing, Scalars

\* Reading a token keeps the invariant.
LEMMA ReadKeeps ==
  ASSUME ParserInv, NEW token \in Tokens, Read(token), result' = "reading"
  PROVE  ParserInv'
<1>1. /\ read \in Seq(Tokens) /\ Stored /\ Nesting
      /\ read' = Append(read, token) /\ read' \in Seq(Tokens)
  BY DEF Read, ParserInv
<1>2. PICK open : /\ Nests(open, Kinds(read))
                  /\ read # <<>> => \E path : Leads(path) /\ KindsOn(path) = open[Len(read)]
  BY <1>1 DEF Nesting
<1> SUFFICES Stored' /\ \E path : Leads(path)' /\ KindsOn(path)' = Nested(open[Len(read)], token.kind)
  BY <1>1, <1>2, NestingGoesOn DEF ParserInv
<1>3. CASE read = <<>> /\ ReadFirst(token)
  <2>1. open[Len(read)] = <<>>
    <3>1. Len(read) = 0 /\ Len(Kinds(read)) = 0
      BY <1>3 DEF Kinds
    <3> QED
      BY <1>2, <3>1 DEF Nests
  <2>2. token.kind \in Opening /\ read' = <<token>>
    BY <1>1, <1>3 DEF ReadFirst
  <2>3. Nested(open[Len(read)], token.kind) = <<token.kind>>
    BY <2>1, <2>2 DEF Nested
  <2> QED
    BY <1>3, <2>2, <2>3, PathStarts DEF ReadFirst
<1>4. CASE read # <<>> /\ ~ Refuse(token)
  <2>1. PICK path : Leads(path) /\ KindsOn(path) = open[Len(read)]
    BY <1>2, <1>4
  <2>2. CASE ReadScalar(token)
    <3>1. /\ memory' = PushBack(token) /\ curr' = curr
          /\ Nested(open[Len(read)], token.kind) = open[Len(read)]
      BY <2>2, KindsAre DEF ReadScalar, Nested
    <3>2. Stored' /\ Trail(path)' /\ KindsOn(path)' = KindsOn(path)
      BY <1>1, <2>1, <3>1, PathStays
    <3>3. Leads(path)'
      BY <2>1, <3>1, <3>2 DEF Leads
    <3> QED
      BY <2>1, <3>1, <3>2, <3>3
  <2>3. CASE ReadOpening(token)
    <3>1. /\ memory' = PushBack(token)
          /\ curr' = memory'[curr].values[Len(memory'[curr].values)]
          /\ Nested(open[Len(read)], token.kind) = Append(open[Len(read)], token.kind)
      BY <2>3 DEF ReadOpening, Nested
    <3> SUFFICES ASSUME NEW c, c = curr, NEW last, last = NewPlace(c)
                 PROVE  Stored' /\ \E way : /\ Leads(way)'
                                            /\ KindsOn(way)' = Nested(open[Len(read)], token.kind)
      OBVIOUS
    <3>2. /\ Stored' /\ c \in DOMAIN memory' /\ memory'[c].values # <<>>
          /\ LastOf(c)' = last
      BY <1>1, <2>1, <3>1, PathStays
    <3>3. curr' = last
      BY <3>1, <3>2 DEF LastOf
    <3>4. /\ Leads(Append(path, last))'
          /\ KindsOn(Append(path, last))' = Append(KindsOn(path), token.kind)
      BY <1>1, <2>1, <3>1, <3>3, PathOpens
    <3> QED
      BY <2>1, <3>1, <3>2, <3>4
  <2>4. CASE ReadClosing(token)
    <3>1. UNCHANGED memory /\ curr' = memory[curr].parent /\ curr' # Null
      BY <2>4 DEF ReadClosing
    <3>2. /\ Stored' /\ Leads(SubSeq(path, 1, Len(path) - 1))'
          /\ KindsOn(SubSeq(path, 1, Len(path) - 1))' = SubSeq(KindsOn(path), 1, Len(KindsOn(path)) - 1)
      BY <1>1, <2>1, <3>1, PathCloses
    <3>3. KindsOn(path) # <<>>
      <4>1. Len(path) \in Nat \ {0}
        BY <1>1, <2>1, Innermost
      <4>2. DOMAIN KindsOn(path) = 1 .. Len(path) /\ 1 \in 1 .. Len(path)
        BY <4>1 DEF KindsOn
      <4> QED
        BY <4>2
    <3>4. Nested(open[Len(read)], token.kind) = SubSeq(KindsOn(path), 1, Len(KindsOn(path)) - 1)
      BY <2>1, <2>4, <3>3, KindsAre DEF ReadClosing, Nested
    <3> QED
      BY <3>2, <3>4
  <2>5. CASE ReadSeparator(token)
    <3>1. /\ memory' = [memory EXCEPT ![curr].separator = TRUE] /\ UNCHANGED curr
          /\ Nested(open[Len(read)], token.kind) = open[Len(read)]
      BY <2>5, KindsAre DEF ReadSeparator, Nested
    <3> QED
      BY <1>1, <2>1, <3>1, PathSeparates
  <2> QED
    BY <1>4, <2>2, <2>3, <2>4, <2>5 DEF Read, ReadFirst
<1>5. ~ Refuse(token)
  BY DEF Refuse
<1> QED
  BY <1>3, <1>4, <1>5 DEF Read

LEMMA ParserInvHolds == JsonSpec => []ParserInv
<1>1. Init => ParserInv
  <2> SUFFICES ASSUME Init
               PROVE  ParserInv
    OBVIOUS
  <2>1. read \in Seq(Tokens) /\ read = <<>> /\ memory = <<>>
    BY DEF Init
  <2>2. DOMAIN memory = {}
    BY <2>1
  <2>3. Stored
    BY <2>1, <2>2 DEF Stored
  <2>4. Nests([n \in 0 .. 0 |-> <<>>], Kinds(read))
    <3>1. Len(Kinds(read)) = 0
      BY <2>1 DEF Kinds
    <3>2. \A n \in 0 .. 0 : n = 0
      OBVIOUS
    <3> QED
      BY <3>1, <3>2 DEF Nests
  <2> QED
    BY <2>1, <2>3, <2>4 DEF ParserInv, Nesting
<1>2. ASSUME ParserInv, [JsonNext]_vars
      PROVE  ParserInv'
  <2>1. CASE UNCHANGED vars
    <3>1. UNCHANGED <<read, memory, curr, result>>
      BY <2>1 DEF vars
    <3>2. \A path : (Leads(path)' <=> Leads(path)) /\ KindsOn(path)' = KindsOn(path)
      BY <3>1 DEF Leads, Trail, Holds, KindsOn, LastOf
    <3>3. Stored' <=> Stored
      BY <3>1 DEF Stored
    <3>4. \A open : Nests(open, Kinds(read))' <=> Nests(open, Kinds(read))
      BY <3>1 DEF Nests, Kinds
    <3> QED
      BY <1>2, <3>1, <3>2, <3>3, <3>4 DEF ParserInv, Nesting
  <2>2. CASE result' # "reading"
    BY <2>2 DEF ParserInv
  <2>3. ASSUME NEW token \in Tokens, Read(token)
        PROVE  ParserInv'
    BY <1>2, <2>2, <2>3, ReadKeeps
  <2> QED
    BY <1>2, <2>1, <2>2, <2>3 DEF JsonNext, RunOut
<1> QED
  BY <1>1, <1>2, PTL DEF JsonSpec

\* In every text, while it is read: ParentIsOpen, by ReadFirst, ReadScalar,
\* ReadOpening, ReadClosing and ReadSeparator.
THEOREM PointersStayGood == JsonSpec => []ParentIsOpen
<1>1. ASSUME ParserInv
      PROVE  ParentIsOpen
  <2> SUFFICES ASSUME result = "reading", read # <<>>
               PROVE  ParentIsOpen
    BY DEF ParentIsOpen
  <2>1. PICK opens : /\ Nests(opens, Kinds(read)) /\ read \in Seq(Tokens) /\ Stored
                     /\ \E path : Leads(path) /\ KindsOn(path) = opens[Len(read)]
    BY <1>1 DEF ParserInv, Nesting
  <2>2. PICK path : Leads(path) /\ KindsOn(path) = opens[Len(read)]
    BY <2>1
  <2> DEFINE open == OpenAfter(Kinds(read))
             Way(f) == f = [n \in 1 .. Len(open) |-> IF n = 1 THEN Root ELSE LastOf(f[n - 1])]
             way == CHOOSE f : Way(f)
  <2>3. open = KindsOn(path)
    <3>1. Kinds(read) \in Seq(STRING) /\ Len(Kinds(read)) = Len(read)
      BY <2>1, KindsOfText
    <3> QED
      BY <2>1, <2>2, <3>1, OpenIsNested
  <2>4. /\ Len(path) \in Nat \ {0} /\ path[Len(path)] = curr /\ path \in Seq(Address)
        /\ path[1] = Root
        /\ \A i \in 1 .. Len(path) : /\ path[i] \in DOMAIN memory
                                     /\ memory[path[i]].parent = IF i = 1 THEN Null ELSE path[i - 1]
        /\ \A i \in 1 .. Len(path) - 1 : LastOf(path[i]) = path[i + 1]
    BY <2>1, <2>2, Innermost DEF Leads, Trail
  <2>5. Len(open) = Len(path) /\ \A n \in 1 .. Len(path) : open[n] = memory[path[n]].token.kind
    <3>1. KindsOn(path) = [i \in 1 .. Len(path) |-> memory[path[i]].token.kind]
      BY DEF KindsOn
    <3> QED
      BY <2>3, <2>4, <3>1
  <2>6. open # <<>>
    BY <2>4, <2>5
  <2> HIDE DEF open
  <2>7. Way(path)
    <3>1. path = [n \in 1 .. Len(path) |-> path[n]]
      BY <2>4
    <3>2. \A n \in 1 .. Len(path) : path[n] = IF n = 1 THEN Root ELSE LastOf(path[n - 1])
      <4> SUFFICES ASSUME NEW n \in 1 .. Len(path), n # 1
                   PROVE  path[n] = LastOf(path[n - 1])
        BY <2>4
      <4>1. n - 1 \in 1 .. Len(path) - 1 /\ (n - 1) + 1 = n
        BY <2>4
      <4> QED
        BY <2>4, <4>1
    <3> QED
      BY <2>5, <3>1, <3>2
  <2>8. Way(way)
    BY <2>7
  <2> HIDE DEF way
  <2>9. \A n \in 1 .. Len(path) : way[n] = path[n]
    <3>1. 1 \in 1 .. Len(open) /\ way[1] = path[1]
      BY <2>4, <2>5, <2>7, <2>8
    <3>2. \A n \in 1 .. Len(path) : n # 1 /\ way[n - 1] = path[n - 1] => way[n] = path[n]
      <4> SUFFICES ASSUME NEW n \in 1 .. Len(path), n # 1, way[n - 1] = path[n - 1]
                   PROVE  way[n] = path[n]
        OBVIOUS
      <4>1. n \in 1 .. Len(open) /\ n # 1
        BY <2>4, <2>5
      <4>2. way[n] = LastOf(way[n - 1]) /\ path[n] = LastOf(path[n - 1])
        BY <2>7, <2>8, <4>1
      <4> QED
        BY <4>2
    <3>3. 1 \in Int /\ Len(path) \in Int
      BY <2>4
    <3> HIDE DEF Way
    <3>4. GoOnAlike(way, path, 1, Len(path))
      BY <3>1, <3>2 DEF GoOnAlike
    <3> QED
      BY <3>3, <3>4, AlikeToTheEnd
  <2>10. /\ open # <<>> /\ curr = way[Len(open)]
         /\ \A n \in 1 .. Len(open) :
              /\ way[n] \in DOMAIN memory
              /\ memory[way[n]].token.kind = open[n]
              /\ memory[way[n]].parent = IF n = 1 THEN Null ELSE way[n - 1]
    <3>1. \A n \in 1 .. Len(path) : n # 1 => n - 1 \in 1 .. Len(path)
      BY <2>4
    <3>2. Len(path) \in 1 .. Len(path)
      BY <2>4
    <3> HIDE DEF Way
    <3> QED
      BY <2>4, <2>5, <2>6, <2>9, <3>1, <3>2
  <2> QED
    BY <2>10 DEF ParentIsOpen, open, way
<1> QED
  BY <1>1, ParserInvHolds, PTL
=============================================================================
