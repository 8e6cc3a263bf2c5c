----------------------------- MODULE ItemCursor -----------------------------
(***************************************************************************)
(* What a decoder of well-formed CBOR promises to its caller, with the     *)
(* whole tree at hand: there is a cursor that walks the tree in pre-order,  *)
(* the caller may confine it to an array, map or byte string by entering    *)
(* it, and exiting puts it behind what was entered.  Inside a map, entries  *)
(* can be looked up by their label.  After this, after leaving what was     *)
(* entered by its label, and after leaving the last item of something of    *)
(* indefinite length, the cursor is nowhere until the caller rewinds or     *)
(* leaves the scope.                                                        *)
(***************************************************************************)
EXTENDS CborTree, FiniteSets

CONSTANT Trees       \* with labels and without, of each encoding its ScopesOf
CONSTANT Wanted      \* the labels a caller asks for

VARIABLES input,      \* the encoding
          labelTypes, \* the types of item that can be a label; if there are none, maps are
                      \* read as arrays
          scopes,     \* [at, byLabel]: the items entered and not exited, outermost first
          todo,       \* the visits ahead of the cursor, or Nowhere
          error,      \* the first error since the last reset
          answer      \* what the last call returned: [err, got]

vars == <<input, labelTypes, scopes, todo, error, answer>>

Nowhere == <<[type |-> "nowhere"]>>

\* In an entry that has a label, it is none.
Refused(label) == label # NoLabel /\ label[1] \notin labelTypes

Nothing == [err |-> "SUCCESS", got |-> {}]
Got(vs) == [err |-> "SUCCESS", got |-> {<<vs[i].label, vs[i].at>> : i \in DOMAIN vs}]
Failed(e) == [err |-> e, got |-> {}]

\* The scope when outer is what was entered.
Labelled == labelTypes # {}

Scope(outer) == Trees[Labelled][input][IF outer = <<>> THEN Outside ELSE Last(outer).at]
Behind(visits, p) == SelectSeq(visits, LAMBDA v : v.start >= p)

Init ==
  /\ scopes = <<>>
  /\ todo = Scope(scopes).walk
  /\ error = "SUCCESS"
  /\ answer = Nothing

\* The cursor has passed its next item, which is no more than an error for
\* the caller.
Skip(e) ==
  /\ todo' = IF todo = <<>> THEN todo ELSE Tail(todo)
  /\ UNCHANGED scopes
  /\ answer' = Failed(e)

NextError ==
  IF todo = <<>> THEN "NO_MORE_ITEMS"
  ELSE IF Refused(Head(todo).label) THEN "MAP_LABEL_TYPE" ELSE "SUCCESS"

GetNext ==
  IF NextError # "SUCCESS" THEN Skip(NextError)
  ELSE /\ todo' = Tail(todo)
       /\ UNCHANGED scopes
       /\ answer' = Got(<<Head(todo)>>)

GetNextConsume ==
  IF NextError # "SUCCESS" THEN Skip(NextError)
  ELSE /\ todo' = Behind(todo, Head(todo).end)
       /\ UNCHANGED scopes
       /\ answer' = Got(<<Head(todo)>>)

PeekNext ==
  /\ UNCHANGED <<scopes, todo>>
  /\ answer' = IF NextError # "SUCCESS" THEN Failed(NextError) ELSE Got(<<Head(todo)>>)

EnterVisit(v, byLabel) ==
  /\ scopes' = Append(scopes, [at |-> v.at, byLabel |-> byLabel])
  /\ todo' = Scope(scopes').walk
  /\ answer' = Nothing

\* A map that is read as an array is neither; a tagged byte string is something else
\* than encoded CBOR.
Enterable(v, type) ==
  /\ v.type = type
  /\ type = "map" => Labelled
  /\ type = "bstr" => ~v.tagged

Enter(type) ==
  IF NextError # "SUCCESS" THEN Skip(NextError)
  ELSE IF ~Enterable(Head(todo), type) THEN Skip("UNEXPECTED_TYPE")
  ELSE EnterVisit(Head(todo), FALSE)

Exit(type) ==
  IF scopes = <<>> \/ Scope(scopes).type # type
  THEN UNCHANGED <<scopes, todo>> /\ answer' = Failed("EXIT_MISMATCH")
  ELSE /\ scopes' = Front(scopes)
       /\ LET rest == Behind(Scope(scopes').walk, Scope(scopes).end)
          IN  \/ ~Last(scopes).byLabel /\ todo' = rest
              \/ /\ Last(scopes).byLabel \/ (rest = <<>> /\ Scope(scopes').open)
                 /\ todo' = Nowhere
       /\ answer' = Nothing

Matches(label) ==
  SelectSeq(Scope(scopes).entries, LAMBDA v : v.label = label /\ ~Refused(label))

\* What is wrong with looking up labels for items of the types given.
FindErrors(labels, types) ==
  IF Scope(scopes).type # "map" THEN {"MAP_NOT_ENTERED"}
  ELSE {"DUPLICATE_LABEL" : l \in {l \in labels : Len(Matches(l)) > 1}}
       \cup {"UNEXPECTED_TYPE" :
             l \in {l \in labels : \E i \in DOMAIN Matches(l) : Matches(l)[i].type \notin types}}

FindAll(labels, types) ==
  /\ UNCHANGED scopes
  /\ todo' \in {todo, Nowhere}
  /\ IF FindErrors(labels, types) # {}
     THEN \E e \in FindErrors(labels, types) : answer' = Failed(e)
     ELSE answer' = [err |-> "SUCCESS",
                     got |-> UNION {Got(Matches(l)).got : l \in labels}]

FindOne(label, types) ==
  IF FindErrors({label}, types) = {} /\ Matches(label) = <<>>
  THEN /\ UNCHANGED scopes
       /\ todo' \in {todo, Nowhere}
       /\ answer' = Failed("LABEL_NOT_FOUND")
  ELSE FindAll({label}, types)

EnterFound(label, type) ==
  IF FindErrors({label}, {type}) = {} /\ Matches(label) # <<>>
  THEN EnterVisit(Matches(label)[1], TRUE)
  ELSE FindOne(label, {type})

EnterFoundBstr(label, types) ==
  IF FindErrors({label}, types) # {} \/ Matches(label) = <<>> THEN FindOne(label, types)
  ELSE IF ~Enterable(Matches(label)[1], "bstr")
  THEN /\ UNCHANGED scopes
       /\ todo' \in {todo, Nowhere}
       /\ answer' = Failed("UNEXPECTED_TYPE")
  ELSE EnterVisit(Matches(label)[1], TRUE)

Finish ==
  /\ UNCHANGED <<scopes, todo>>
  /\ answer' = IF error # "SUCCESS" THEN Failed(error)
               ELSE IF scopes # <<>> \/ (todo # <<>> /\ Head(todo).depth > 0)
               THEN Failed("ARRAY_OR_MAP_UNCONSUMED")
               ELSE IF todo # <<>> THEN Failed("EXTRA_BYTES") ELSE Nothing

Rewind ==
  /\ UNCHANGED scopes
  /\ todo' = Scope(scopes).walk
  /\ answer' = Nothing

Types  == {"array", "map", "bstr"}

WalkCall == todo # Nowhere /\ \/ GetNext \/ GetNextConsume \/ PeekNext
                              \/ \E type \in Types : Enter(type)
LookUpCall(anyType) ==
  \/ \E ls \in SUBSET Wanted : Cardinality(ls) \in {1, 2} /\ FindAll(ls, anyType)
  \/ \E l \in Wanted : \/ FindOne(l, anyType)
                       \/ \E type \in Closed : EnterFound(l, type)
                       \/ EnterFoundBstr(l, anyType)
AnyType == {"int", "text", "simple", "bad", "array", "map", "bstr"}

Next ==
  /\ UNCHANGED <<input, labelTypes>>
  /\ \/ Finish /\ UNCHANGED error
     \/ Rewind /\ error' = "SUCCESS"
     \/ UNCHANGED <<scopes, todo>> /\ error' = "SUCCESS" /\ answer' = Failed(error)
     \/ /\ error = "SUCCESS"
        /\ WalkCall \/ (\E type \in Types : Exit(type)) \/ LookUpCall(AnyType)
        /\ error' = answer'.err

Spec == Init /\ [][Next]_vars
=============================================================================
