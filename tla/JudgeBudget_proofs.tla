------------------------ MODULE JudgeBudget_proofs -------------------------
(***************************************************************************)
(* Theorems about JudgeBudget for every set of calls, every limit and any  *)
(* number of crashes and runs.                                             *)
(*                                                                         *)
(* First the order: that a request is posted at most once, that its       *)
(* evidence precedes it and that a confirmed history is never rewritten    *)
(* follow from the order in which call_json reads and writes the ledger    *)
(* and the receipts, which Protocol and Confirmed state.                   *)
(*                                                                         *)
(* Then the money: Books says that two accounts balance, that of all calls *)
(* since the confirmed bill under the shared limit, and that of the calls  *)
(* of this run since it loaded the ledger under its ceiling.               *)
(***************************************************************************)
EXTENDS JudgeBudget, FiniteSetTheorems, SequenceTheorems, WellFoundedInduction, TLAPS

-----------------------------------------------------------------------------
(* Sums over finite sets. The provers cannot instantiate the library's     *)
(* induction theorems, whose parameter is an operator; the facts about     *)
(* SumFunction below are proved by a least counter-example instead: of the *)
(* subsets of a finite set in a given set Bad, one has no proper subset in *)
(* it.                                                                     *)
LEMMA LeastSubset ==
  ASSUME NEW S, IsFiniteSet(S), NEW Bad, Bad \subseteq SUBSET S, Bad # {}
  PROVE  \E T \in Bad : \A U \in SUBSET T : U # T => U \notin Bad
<1>1. FiniteSubsetsOf(S) = SUBSET S  BY FS_FiniteSubsetsOfFinite
<1>2. IsWellFoundedOn(StrictSubsetOrdering(S), SUBSET S)
  BY <1>1, FS_StrictSubsetOrderingWellFounded
<1>3. PICK T \in Bad : \A U \in Bad : <<U, T>> \notin StrictSubsetOrdering(S)
  BY <1>2, WFMin
<1>4. \A U \in SUBSET T : U # T => U \notin Bad
  BY <1>3 DEF StrictSubsetOrdering
<1>. QED  BY <1>4

(* The element the library's fold of s takes first.                        *)
First(s) == CHOOSE x \in s : TRUE

(* g is the table of the partial sums of f over the subsets of S; the fold *)
(* is what the table says of S, if there is one.                           *)
Table(f, g, S) ==
  g = [s \in SUBSET S |-> IF s = {} THEN 0 ELSE f[First(s)] + g[s \ {First(s)}]]

LEMMA SumIsTable ==
  ASSUME NEW f, NEW S
  PROVE  SumFunctionOnSet(f, S) = (CHOOSE g : Table(f, g, S))[S]
BY DEF SumFunctionOnSet, FoldFunctionOnSet, MapThenFoldSet, Table, First

LEMMA FirstIn ==
  ASSUME NEW s, s # {}
  PROVE  First(s) \in s
BY DEF First

LEMMA TableValue ==
  ASSUME NEW f, NEW S, NEW g, Table(f, g, S), NEW s \in SUBSET S
  PROVE  g[s] = IF s = {} THEN 0 ELSE f[First(s)] + g[s \ {First(s)}]
BY DEF Table

(* Two tables agree where both are defined.                                *)
LEMMA TablesAgree ==
  ASSUME NEW f, NEW S, NEW R, NEW g, NEW h, Table(f, g, S), Table(f, h, R),
         NEW s, s \subseteq S, s \subseteq R, IsFiniteSet(s)
  PROVE  g[s] = h[s]
<1>. DEFINE Bad == {t \in SUBSET s : g[t] # h[t]}
<1>. SUFFICES ASSUME Bad # {} PROVE FALSE
  OBVIOUS
<1>1. PICK t \in Bad : \A u \in SUBSET t : u # t => u \notin Bad
  <2>1. Bad \subseteq SUBSET s  OBVIOUS
  <2>. HIDE DEF Bad
  <2>. QED  BY <2>1, LeastSubset
<1>2. t \subseteq S /\ t \subseteq R /\ t # {}
  BY TableValue
<1>3. First(t) \in t  BY <1>2, FirstIn
<1>4. g[t \ {First(t)}] = h[t \ {First(t)}]
  BY <1>1, <1>3
<1>. QED  BY <1>2, <1>4, TableValue

(* The recursive function exists, because the set is finite: its value at  *)
(* a set is taken from the tables of that set's proper subsets.            *)
LEMMA TableExists ==
  ASSUME NEW f, NEW S, IsFiniteSet(S)
  PROVE  \E g : Table(f, g, S)
<1>. DEFINE Bad == {t \in SUBSET S : ~ \E g : Table(f, g, t)}
<1>. SUFFICES ASSUME Bad # {} PROVE FALSE
  OBVIOUS
<1>1. PICK t \in Bad : \A u \in SUBSET t : u # t => u \notin Bad
  <2>1. Bad \subseteq SUBSET S  OBVIOUS
  <2>. HIDE DEF Bad
  <2>. QED  BY <2>1, LeastSubset
<1>. DEFINE of(u) == CHOOSE g : Table(f, g, u)
            at(u) == of(u)[u]
            Rest == t \ {First(t)}
            g == [u \in SUBSET t |-> IF u # t THEN at(u)
                                     ELSE IF t = {} THEN 0 ELSE f[First(t)] + at(Rest)]
<1>2. \A u \in SUBSET t : u # t => Table(f, of(u), u)
  BY <1>1
<1>3. \A u \in SUBSET t : g[u] = IF u = {} THEN 0 ELSE f[First(u)] + g[u \ {First(u)}]
  <2>. TAKE u \in SUBSET t
  <2>1. CASE u = t
    <3>1. t # {} => Rest # t  BY FirstIn
    <3>. QED  BY <2>1, <3>1
  <2>2. CASE u # t
    <3>1. IsFiniteSet(u)  BY FS_Subset
    <3>2. g[u] = IF u = {} THEN 0 ELSE f[First(u)] + of(u)[u \ {First(u)}]
      <4>1. g[u] = of(u)[u] /\ Table(f, of(u), u)  BY <1>2, <2>2
      <4>. HIDE DEF of, g
      <4>. QED  BY <4>1, TableValue
    <3>. DEFINE v == u \ {First(u)}
    <3>3. u # {} => v \in SUBSET t /\ v # t /\ v # u  BY <2>2, FirstIn
    <3>4. u # {} => of(u)[v] = of(v)[v]
      <4>. HAVE u # {}
      <4>1. Table(f, of(u), u) /\ Table(f, of(v), v)  BY <1>2, <2>2, <3>3
      <4>2. IsFiniteSet(v) /\ v \subseteq u  BY <3>1, FS_Subset
      <4>. HIDE DEF of, v
      <4>. QED  BY <4>1, <4>2, TablesAgree
    <3>. QED  BY <3>2, <3>3, <3>4
  <2>. QED  BY <2>1, <2>2
<1>4. Table(f, g, t)
  <2>. HIDE DEF of
  <2>. QED  BY <1>3 DEF Table
<1>. QED  BY <1>4

(* So the sum obeys the recursion its definition means.                    *)
LEMMA SumStep ==
  ASSUME NEW f, NEW S, IsFiniteSet(S)
  PROVE  SumFunctionOnSet(f, S) =
           IF S = {} THEN 0 ELSE f[First(S)] + SumFunctionOnSet(f, S \ {First(S)})
<1>. DEFINE R == S \ {First(S)}
            g == CHOOSE x : Table(f, x, S)
            h == CHOOSE x : Table(f, x, R)
<1>1. IsFiniteSet(R)  BY FS_Subset
<1>2. Table(f, g, S) /\ Table(f, h, R)  BY <1>1, TableExists
<1>3. SumFunctionOnSet(f, S) = g[S] /\ SumFunctionOnSet(f, R) = h[R]  BY SumIsTable
<1>. HIDE DEF g, h
<1>4. g[R] = h[R]  BY <1>1, <1>2, TablesAgree
<1>5. g[S] = IF S = {} THEN 0 ELSE f[First(S)] + g[R]  BY <1>2, TableValue
<1>. QED  BY <1>3, <1>4, <1>5

LEMMA EmptySum ==
  ASSUME NEW f
  PROVE  SumFunctionOnSet(f, {}) = 0
BY SumStep, FS_EmptySet

(* The summands are integers; two functions have the same summands.        *)
IntsOn(f, S) == \A x \in S : f[x] \in Int
SameOn(f, g, S) == \A x \in S : f[x] = g[x]

(* Equal summands, equal sums.                                             *)
LEMMA SameSum ==
  ASSUME NEW S, IsFiniteSet(S), NEW f, NEW g, SameOn(f, g, S)
  PROVE  SumFunctionOnSet(f, S) = SumFunctionOnSet(g, S)
<1>. DEFINE Bad == {t \in SUBSET S : SumFunctionOnSet(f, t) # SumFunctionOnSet(g, t)}
<1>. SUFFICES ASSUME Bad # {} PROVE FALSE
  OBVIOUS
<1>1. PICK t \in Bad : \A u \in SUBSET t : u # t => u \notin Bad
  <2>1. Bad \subseteq SUBSET S  OBVIOUS
  <2>. HIDE DEF Bad
  <2>. QED  BY <2>1, LeastSubset
<1>2. IsFiniteSet(t)  BY FS_Subset
<1>3. t # {}  BY EmptySum
<1>4. First(t) \in t  BY <1>3, FirstIn
<1>5. SumFunctionOnSet(f, t \ {First(t)}) = SumFunctionOnSet(g, t \ {First(t)})
  BY <1>1, <1>4
<1>. QED  BY <1>2, <1>3, <1>4, <1>5, SumStep DEF SameOn

(* A sum of integers is one.                                               *)
LEMMA SumType ==
  ASSUME NEW S, IsFiniteSet(S), NEW f, IntsOn(f, S)
  PROVE  SumFunctionOnSet(f, S) \in Int
<1>. DEFINE Bad == {t \in SUBSET S : SumFunctionOnSet(f, t) \notin Int}
<1>. SUFFICES ASSUME Bad # {} PROVE FALSE
  OBVIOUS
<1>1. PICK t \in Bad : \A u \in SUBSET t : u # t => u \notin Bad
  <2>1. Bad \subseteq SUBSET S  OBVIOUS
  <2>. HIDE DEF Bad
  <2>. QED  BY <2>1, LeastSubset
<1>2. IsFiniteSet(t)  BY FS_Subset
<1>3. t # {}  BY EmptySum
<1>4. First(t) \in t  BY <1>3, FirstIn
<1>5. SumFunctionOnSet(f, t \ {First(t)}) \in Int  BY <1>1, <1>4
<1>6. f[First(t)] \in Int  BY <1>4 DEF IntsOn
<1>. QED  BY <1>2, <1>3, <1>5, <1>6, SumStep

(* The order of the summands does not matter: any of them can be taken     *)
(* first.                                                                  *)
LEMMA SumWithout ==
  ASSUME NEW S, IsFiniteSet(S), NEW f, IntsOn(f, S), NEW x \in S
  PROVE  SumFunctionOnSet(f, S) = f[x] + SumFunctionOnSet(f, S \ {x})
<1>. DEFINE Holds(t, y) == SumFunctionOnSet(f, t) = f[y] + SumFunctionOnSet(f, t \ {y})
            Bad == {t \in SUBSET S : \E y \in t : ~Holds(t, y)}
<1>. SUFFICES ASSUME Bad # {} PROVE FALSE
  OBVIOUS
<1>1. PICK t \in Bad : \A u \in SUBSET t : u # t => u \notin Bad
  <2>1. Bad \subseteq SUBSET S  OBVIOUS
  <2>. HIDE DEF Bad
  <2>. QED  BY <2>1, LeastSubset
<1>2. PICK y \in t : ~Holds(t, y)  OBVIOUS
<1>. DEFINE p == First(t)
<1>3. p \in t /\ IsFiniteSet(t)  BY FirstIn, FS_Subset
<1>4. SumFunctionOnSet(f, t) = f[p] + SumFunctionOnSet(f, t \ {p})
  BY <1>3, SumStep
<1>5. y # p  BY <1>2, <1>4
<1>6. Holds(t \ {p}, y) /\ Holds(t \ {y}, p)  BY <1>1, <1>2, <1>3, <1>5
<1>7. (t \ {p}) \ {y} = (t \ {y}) \ {p}  OBVIOUS
<1>8. /\ f[p] \in Int /\ f[y] \in Int
      /\ SumFunctionOnSet(f, (t \ {p}) \ {y}) \in Int
  <2>1. IsFiniteSet((t \ {p}) \ {y})  BY <1>3, FS_Subset
  <2>2. IntsOn(f, (t \ {p}) \ {y})  BY <1>3 DEF IntsOn
  <2>. QED  BY <1>2, <1>3, <2>1, <2>2, SumType DEF IntsOn
<1>9. /\ SumFunctionOnSet(f, t) # f[y] + SumFunctionOnSet(f, t \ {y})
      /\ SumFunctionOnSet(f, t \ {p}) = f[y] + SumFunctionOnSet(f, (t \ {p}) \ {y})
      /\ SumFunctionOnSet(f, t \ {y}) = f[p] + SumFunctionOnSet(f, (t \ {p}) \ {y})
  BY <1>2, <1>6, <1>7
<1>. HIDE DEF p, Holds, Bad
<1>. QED  BY <1>4, <1>8, <1>9

(* A new summand.                                                          *)
LEMMA SumAdd ==
  ASSUME NEW S, IsFiniteSet(S), NEW x, x \notin S, NEW f, IntsOn(f, S \cup {x})
  PROVE  SumFunctionOnSet(f, S \cup {x}) = SumFunctionOnSet(f, S) + f[x]
<1>1. IsFiniteSet(S \cup {x}) /\ (S \cup {x}) \ {x} = S  BY FS_AddElement
<1>2. SumFunctionOnSet(f, S \cup {x}) = f[x] + SumFunctionOnSet(f, (S \cup {x}) \ {x})
  BY <1>1, SumWithout
<1>3. SumFunctionOnSet(f, S) \in Int /\ f[x] \in Int
  <2>1. IntsOn(f, S)  BY DEF IntsOn
  <2>. QED  BY <2>1, SumType DEF IntsOn
<1>4. SumFunctionOnSet(f, S \cup {x}) = f[x] + SumFunctionOnSet(f, S)  BY <1>1, <1>2
<1>. QED  BY <1>3, <1>4

(* One summand changes.                                                    *)
LEMMA SumUpdate ==
  ASSUME NEW S, IsFiniteSet(S), NEW x \in S, NEW f, NEW g,
         IntsOn(f, S), g[x] \in Int, SameOn(g, f, S \ {x})
  PROVE  SumFunctionOnSet(g, S) = SumFunctionOnSet(f, S) - f[x] + g[x]
<1>. DEFINE R == S \ {x}
<1>1. IsFiniteSet(R) /\ R \subseteq S  BY FS_Subset
<1>2. IntsOn(g, S)
  <2>1. \A y \in S : y = x \/ y \in S \ {x}  OBVIOUS
  <2>. QED  BY <2>1 DEF IntsOn, SameOn
<1>3. SumFunctionOnSet(f, S) = f[x] + SumFunctionOnSet(f, R)  BY SumWithout
<1>4. SumFunctionOnSet(g, S) = g[x] + SumFunctionOnSet(g, R)  BY <1>2, SumWithout
<1>5. SumFunctionOnSet(g, R) = SumFunctionOnSet(f, R)  BY <1>1, SameSum
<1>6. SumFunctionOnSet(f, R) \in Int
  <2>1. IntsOn(f, R)  BY <1>1 DEF IntsOn
  <2>. QED  BY <1>1, <2>1, SumType
<1>. HIDE DEF R
<1>7. f[x] \in Int  BY DEF IntsOn
<1>. QED  BY <1>3, <1>4, <1>5, <1>6, <1>7

(* Summand by summand, two sums are at most two others.                    *)
LEMMA SumsBounded ==
  ASSUME NEW S, IsFiniteSet(S), NEW a, NEW o, NEW b, NEW e,
         IntsOn(a, S), IntsOn(o, S), IntsOn(b, S), IntsOn(e, S),
         \A x \in S : a[x] + o[x] <= b[x] + e[x]
  PROVE  SumFunctionOnSet(a, S) + SumFunctionOnSet(o, S)
           <= SumFunctionOnSet(b, S) + SumFunctionOnSet(e, S)
<1>. DEFINE Bad == {t \in SUBSET S : ~(SumFunctionOnSet(a, t) + SumFunctionOnSet(o, t)
                       <= SumFunctionOnSet(b, t) + SumFunctionOnSet(e, t))}
<1>. SUFFICES ASSUME Bad # {} PROVE FALSE
  OBVIOUS
<1>1. PICK t \in Bad : \A u \in SUBSET t : u # t => u \notin Bad
  <2>1. Bad \subseteq SUBSET S  OBVIOUS
  <2>. HIDE DEF Bad
  <2>. QED  BY <2>1, LeastSubset
<1>2. IsFiniteSet(t)  BY FS_Subset
<1>3. ~(SumFunctionOnSet(a, t) + SumFunctionOnSet(o, t)
          <= SumFunctionOnSet(b, t) + SumFunctionOnSet(e, t))
  OBVIOUS
<1>4. t # {}
  <2>. HIDE DEF Bad
  <2>. QED  BY <1>3, EmptySum
<1>. DEFINE p == First(t)
            r == t \ {p}
<1>5. p \in t /\ p \in S /\ r \subseteq S /\ IsFiniteSet(r)  BY <1>2, <1>4, FirstIn, FS_Subset
<1>6. SumFunctionOnSet(a, r) + SumFunctionOnSet(o, r)
        <= SumFunctionOnSet(b, r) + SumFunctionOnSet(e, r)
  BY <1>1, <1>5
<1>7. /\ SumFunctionOnSet(a, r) \in Int /\ SumFunctionOnSet(o, r) \in Int
      /\ SumFunctionOnSet(b, r) \in Int /\ SumFunctionOnSet(e, r) \in Int
  <2>1. IntsOn(a, r) /\ IntsOn(o, r) /\ IntsOn(b, r) /\ IntsOn(e, r)  BY <1>5 DEF IntsOn
  <2>. HIDE DEF r
  <2>. QED  BY <1>5, <2>1, SumType
<1>8. /\ SumFunctionOnSet(a, t) = a[p] + SumFunctionOnSet(a, r)
      /\ SumFunctionOnSet(o, t) = o[p] + SumFunctionOnSet(o, r)
      /\ SumFunctionOnSet(b, t) = b[p] + SumFunctionOnSet(b, r)
      /\ SumFunctionOnSet(e, t) = e[p] + SumFunctionOnSet(e, r)
  BY <1>2, <1>4, SumStep
<1>9. /\ a[p] \in Int /\ o[p] \in Int /\ b[p] \in Int /\ e[p] \in Int
      /\ a[p] + o[p] <= b[p] + e[p]
  BY <1>5 DEF IntsOn
<1>. HIDE DEF p, r, Bad
<1>. QED  BY <1>6, <1>7, <1>8, <1>9, <1>3

(* A sum of zeros is zero, and one of naturals a natural.                  *)
LEMMA SumZero ==
  ASSUME NEW S, IsFiniteSet(S), NEW f, \A x \in S : f[x] = 0
  PROVE  SumFunctionOnSet(f, S) = 0
<1>. DEFINE Bad == {t \in SUBSET S : SumFunctionOnSet(f, t) # 0}
<1>. SUFFICES ASSUME Bad # {} PROVE FALSE
  OBVIOUS
<1>1. PICK t \in Bad : \A u \in SUBSET t : u # t => u \notin Bad
  <2>1. Bad \subseteq SUBSET S  OBVIOUS
  <2>. HIDE DEF Bad
  <2>. QED  BY <2>1, LeastSubset
<1>2. IsFiniteSet(t)  BY FS_Subset
<1>3. t # {}  BY EmptySum
<1>4. First(t) \in t  BY <1>3, FirstIn
<1>5. SumFunctionOnSet(f, t \ {First(t)}) = 0  BY <1>1, <1>4
<1>. QED  BY <1>2, <1>3, <1>4, <1>5, SumStep

LEMMA SumNat ==
  ASSUME NEW S, IsFiniteSet(S), NEW f, \A x \in S : f[x] \in Nat
  PROVE  SumFunctionOnSet(f, S) \in Nat
<1>. DEFINE zero == [x \in S |-> 0]
<1>1. SumFunctionOnSet(zero, S) = 0  BY SumZero
<1>2. SumFunctionOnSet(f, S) \in Int
  <2>1. IntsOn(f, S)  BY DEF IntsOn
  <2>. QED  BY <2>1, SumType
<1>3. SumFunctionOnSet(zero, S) + SumFunctionOnSet(zero, S)
        <= SumFunctionOnSet(f, S) + SumFunctionOnSet(zero, S)
  <2>1. IntsOn(zero, S) /\ IntsOn(f, S)  BY DEF IntsOn
  <2>2. \A x \in S : zero[x] + zero[x] <= f[x] + zero[x]  OBVIOUS
  <2>. HIDE DEF zero
  <2>. QED  BY <2>1, <2>2, SumsBounded
<1>. HIDE DEF zero
<1>. QED  BY <1>1, <1>2, <1>3

(* One more summand, beside others that stay.                              *)
LEMMA SumGrows ==
  ASSUME NEW S, IsFiniteSet(S), NEW x, x \notin S, NEW f, NEW g,
         IntsOn(f, S), SameOn(g, f, S), g[x] \in Int
  PROVE  SumFunctionOnSet(g, S \cup {x}) = SumFunctionOnSet(f, S) + g[x]
<1>1. IntsOn(g, S \cup {x})  BY DEF IntsOn, SameOn
<1>2. SumFunctionOnSet(g, S \cup {x}) = SumFunctionOnSet(g, S) + g[x]  BY <1>1, SumAdd
<1>3. SumFunctionOnSet(g, S) = SumFunctionOnSet(f, S)  BY SameSum
<1>. QED  BY <1>2, <1>3
-----------------------------------------------------------------------------
Row == [id: Calls, accounted: Nat]

(* What the steps need of the variables' ranges.                           *)
Ranges ==
  /\ rows \in Seq(Row)
  /\ receipt \in [Calls -> Receipts] /\ pc \in [Calls -> Places]
  /\ sent \in [Calls -> Nat] /\ spent \in [Calls -> Nat]

(* Where a coroutine is determines what its files say. A request that was  *)
(* posted left both behind, so a later attempt, in this run or another,    *)
(* finds one of them.                                                      *)
Protocol ==
  \A c \in Calls :
    /\ sent[c] <= 1
    /\ sent[c] = 1 => HasRow(c) /\ receipt[c] # "absent"
    /\ receipt[c] = "received" => sent[c] = 1
    /\ pc[c] = "reserved" => HasRow(c) /\ sent[c] = 0
    /\ pc[c] = "recorded" => HasRow(c) /\ sent[c] = 0 /\ receipt[c] # "absent"
    /\ pc[c] \in {"sending", "priced", "unpriced"} => sent[c] = 1
    /\ pc[c] = "returned" => receipt[c] = "received"

Order == Ranges /\ Protocol
-----------------------------------------------------------------------------
(* A row never disappears, and settling one keeps every id.                *)
LEMMA RowsKept ==
  ASSUME Ranges, Next, NEW c \in Calls, HasRow(c)
  PROVE  HasRow(c)'
<1>. PICK i \in 1..Len(rows) : rows[i].id = c  BY DEF HasRow
<1>1. CASE rows' = rows  BY <1>1 DEF HasRow
<1>2. CASE \E d \in Calls : rows' = Append(rows, [id |-> d, accounted |-> Bound[d]])
  <2>. PICK d \in Calls : rows' = Append(rows, [id |-> d, accounted |-> Bound[d]])
    BY <1>2
  <2>1. rows \in Seq(Row)  BY DEF Ranges
  <2>2. Len(rows') = Len(rows) + 1 /\ rows'[i] = rows[i]  BY <2>1
  <2>. QED  BY <2>1, <2>2 DEF HasRow
<1>3. CASE \E d \in Calls : Settle(d)
  <2>. PICK d \in Calls : Settle(d)  BY <1>3
  <2>1. /\ Len(rows') = Len(rows)
        /\ rows'[i] = IF rows[i].id = d
                      THEN [rows[i] EXCEPT !.accounted = SettledCost(d)] ELSE rows[i]
    BY DEF Settle, Ranges
  <2>2. rows[i] \in Row  BY DEF Ranges
  <2>. QED  BY <2>1, <2>2 DEF HasRow, Row
<1>. QED
  BY <1>1, <1>2, <1>3 DEF Next, Start, Exit, Reconcile, Request, Record, Send, Respond

(* Every step keeps the ranges.                                            *)
LEMMA RangesKept ==
  ASSUME Ranges, Next
  PROVE  Ranges'
<1>. USE LedgerAssumption DEF Ranges, Receipts, Places, Busy
<1>1. CASE Start \/ Exit \/ Reconcile  BY <1>1 DEF Start, Exit, Reconcile
<1>2. ASSUME NEW c \in Calls, Request(c)  PROVE Ranges'
  <2>1. [id |-> c, accounted |-> Bound[c]] \in Row  BY DEF Row
  <2>2. rows' \in Seq(Row)
    <3>1. rows' = rows \/ rows' = Append(rows, [id |-> c, accounted |-> Bound[c]])
      BY <1>2 DEF Request
    <3>2. rows \in Seq(Row)  OBVIOUS
    <3>. HIDE DEF Ranges
    <3>3. Append(rows, [id |-> c, accounted |-> Bound[c]]) \in Seq(Row)
      BY <2>1, <3>2, AppendProperties
    <3>. QED  BY <3>1, <3>2, <3>3
  <2>3. \E place \in {"returned", "refused", "reserved"} : pc' = [pc EXCEPT ![c] = place]
    BY <1>2 DEF Request
  <2>4. pc' \in [Calls -> Places]  BY <2>3
  <2>. QED  BY <1>2, <2>2, <2>4 DEF Request
<1>3. ASSUME NEW c \in Calls, Record(c)  PROVE Ranges'  BY <1>3 DEF Record
<1>4. ASSUME NEW c \in Calls, NEW bill \in Bills, Send(c, bill)  PROVE Ranges'
  BY <1>4 DEF Send
<1>5. ASSUME NEW c \in Calls, NEW usage \in BOOLEAN,
             NEW status \in {"received", "failed", "cancelled"}, Respond(c, status, usage)
      PROVE Ranges'
  BY <1>5 DEF Respond
<1>6. ASSUME NEW c \in Calls, Settle(c)  PROVE Ranges'
  <2>1. SettledCost(c) \in Nat  BY DEF SettledCost
  <2>2. \A i \in 1..Len(rows) :
          (IF rows[i].id = c THEN [rows[i] EXCEPT !.accounted = SettledCost(c)]
                             ELSE rows[i]) \in Row
    <3>. TAKE i \in 1..Len(rows)
    <3>1. rows[i] \in Row  OBVIOUS
    <3>. QED  BY <2>1, <3>1 DEF Row
  <2>3. rows' \in Seq(Row)  BY <1>6, <2>2 DEF Settle
  <2>. QED  BY <1>6, <2>3 DEF Settle
<1>. QED  BY <1>1, <1>2, <1>3, <1>4, <1>5, <1>6 DEF Next

(* Protocol is inductive: a step changes the files and the place of one    *)
(* call only, apart from Exit, which sends every coroutine back to idle.   *)
LEMMA ProtocolKept ==
  ASSUME Order, Next
  PROVE  Protocol'
<1>. USE DEF Order, Ranges
<1>. SUFFICES ASSUME NEW c \in Calls
              PROVE  /\ (sent[c] <= 1)'
                     /\ (sent[c] = 1 => HasRow(c) /\ receipt[c] # "absent")'
                     /\ (receipt[c] = "received" => sent[c] = 1)'
                     /\ (pc[c] = "reserved" => HasRow(c) /\ sent[c] = 0)'
                     /\ (pc[c] = "recorded" =>
                            HasRow(c) /\ sent[c] = 0 /\ receipt[c] # "absent")'
                     /\ (pc[c] \in {"sending", "priced", "unpriced"} => sent[c] = 1)'
                     /\ (pc[c] = "returned" => receipt[c] = "received")'
  BY DEF Protocol
<1>0. HasRow(c) => HasRow(c)'  BY RowsKept
<1>1. CASE Start \/ Exit \/ Reconcile
  BY <1>0, <1>1 DEF Protocol, Start, Exit, Reconcile
<1>2. ASSUME NEW d \in Calls, Request(d)
      PROVE  /\ receipt' = receipt /\ sent' = sent
             /\ pc'[c] = pc[c] \/ (c = d /\
                  \/ pc'[c] = "refused"
                  \/ pc'[c] = "returned" /\ receipt[c] = "received"
                  \/ pc'[c] = "reserved" /\ ~Attempted(c) /\ HasRow(c)')
  <2>1. rows' = Append(rows, [id |-> d, accounted |-> Bound[d]]) => HasRow(d)'
    <3>. HAVE rows' = Append(rows, [id |-> d, accounted |-> Bound[d]])
    <3>1. Len(rows') \in 1..Len(rows') /\ rows'[Len(rows')].id = d  OBVIOUS
    <3>. QED  BY <3>1 DEF HasRow
  <2>. QED  BY <1>2, <2>1 DEF Request
<1>3. ASSUME NEW d \in Calls, Request(d)
      PROVE  (sent[c] = 0 \/ sent[c] = 1) /\ (~Attempted(c) => sent[c] = 0)
  BY DEF Protocol, Attempted
<1>4. CASE \E d \in Calls : Request(d)
  BY <1>0, <1>2, <1>3, <1>4 DEF Protocol
<1>5. CASE \E d \in Calls : Record(d)
  BY <1>0, <1>5 DEF Protocol, Record
<1>6. CASE \E d \in Calls, bill \in Bills : Send(d, bill)
  BY <1>0, <1>6 DEF Protocol, Send
<1>7. CASE \E d \in Calls, status \in {"received", "failed", "cancelled"},
              usage \in BOOLEAN : Respond(d, status, usage)
  BY <1>0, <1>7 DEF Protocol, Respond
<1>8. CASE \E d \in Calls : Settle(d)
  BY <1>0, <1>8 DEF Protocol, Settle
<1>. QED  BY <1>1, <1>4, <1>5, <1>6, <1>7, <1>8 DEF Next

LEMMA OrderInit == Init => Order
<1>. HAVE Init
<1>1. Ranges  BY DEF Init, Ranges, Receipts, Places
<1>2. Protocol  BY DEF Init, Protocol
<1>. QED  BY <1>1, <1>2 DEF Order

LEMMA OrderStep == Order /\ [Next]_vars => Order'
<1>. HAVE Order /\ [Next]_vars
<1>1. CASE Next  BY <1>1, RangesKept, ProtocolKept DEF Order
<1>2. CASE UNCHANGED vars
  BY <1>2 DEF Order, Ranges, Protocol, HasRow, vars
<1>. QED  BY <1>1, <1>2

(* The order of the writes holds in every reachable state.                 *)
THEOREM OrderInvariant == Spec => []Order
BY OrderInit, OrderStep, PTL DEF Spec

(* No request id is ever posted twice (call_json, "no automatic paid       *)
(* retry"), whatever crashes, fails or is cancelled, in any number of runs *)
(* over the same ledger.                                                   *)
THEOREM PostedAtMostOnce == Spec => []AtMostOnce
<1>1. Order => AtMostOnce  BY DEF Order, Protocol, AtMostOnce
<1>. QED  BY OrderInvariant, <1>1, PTL

(* A posted request has its reservation and its receipt on disk, and only  *)
(* an answer that is on disk is returned (call_json's dump before the      *)
(* await, and in its finally).                                             *)
THEOREM EvidencePrecedes == Spec => []EvidenceFirst
<1>1. Order => EvidenceFirst  BY DEF Order, Ranges, Protocol, EvidenceFirst
<1>. QED  BY OrderInvariant, <1>1, PTL
-----------------------------------------------------------------------------
(* Sequences that agree up to n have the same prefix of length n.          *)
LEMMA SamePrefix ==
  ASSUME NEW S, NEW s \in Seq(S), NEW t \in Seq(S), NEW n \in 0..Len(s),
         n <= Len(t), \A i \in 1..n : s[i] = t[i]
  PROVE  SubSeq(s, 1, n) = SubSeq(t, 1, n)
<1>1. Len(SubSeq(s, 1, n)) = n /\ Len(SubSeq(t, 1, n)) = n  OBVIOUS
<1>2. \A i \in 1..n : SubSeq(s, 1, n)[i] = s[i] /\ SubSeq(t, 1, n)[i] = t[i]  OBVIOUS
<1>3. SubSeq(s, 1, n) \in Seq(S) /\ SubSeq(t, 1, n) \in Seq(S)  OBVIOUS
<1>. QED  BY <1>1, <1>2, <1>3, SeqEqual

(* A confirmed row belongs to a call that is settled for good: its         *)
(* coroutine, if this run has one, is refused or answered from the cache.  *)
(* No coroutine exists while the lock is free.                             *)
Confirmed ==
  /\ rows \in Seq(Row)
  /\ billing.through \in 0..Len(rows)
  /\ SubSeq(rows, 1, billing.through) = billing.prefix
  /\ pc \in [Calls -> Places]
  /\ ~up => \A c \in Calls : pc[c] = "idle"
  /\ \A i \in 1..billing.through : pc[rows[i].id] \in {"idle", "refused", "returned"}

LEMMA ConfirmedStep ==
  ASSUME Confirmed, Ranges, Next
  PROVE  Confirmed'
<1>0. Ranges'  BY RangesKept
<1>. USE DEF Confirmed, Ranges
<1>. DEFINE n == billing.through
<1>9. \A i \in 1..Len(rows) : rows[i].id \in Calls
  <2>1. \A i \in 1..Len(rows) : rows[i] \in Row  OBVIOUS
  <2>. QED  BY <2>1 DEF Row
<1>1. CASE Start  BY <1>0, <1>1, <1>9 DEF Start
<1>2. CASE Exit  BY <1>0, <1>2, <1>9 DEF Exit
<1>3. CASE Reconcile
  <2>1. billing'.through = Len(rows) /\ billing'.prefix = rows /\ rows' = rows /\ pc' = pc
    BY <1>3 DEF Reconcile
  <2>2. SubSeq(rows, 1, Len(rows)) = rows  OBVIOUS
  <2>. QED  BY <1>0, <1>3, <1>9, <2>1, <2>2 DEF Reconcile
<1>4. ASSUME NEW c \in Calls, Request(c)  PROVE Confirmed'
  <2>1. /\ billing' = billing /\ up' = up /\ up
        /\ rows' = rows \/ (rows' = Append(rows, [id |-> c, accounted |-> Bound[c]]) /\ ~HasRow(c))
        /\ pc' = [pc EXCEPT ![c] = pc'[c]]
        /\ pc'[c] \in {"refused", "returned"} \/ ~HasRow(c)
    BY <1>4 DEF Request, Alone, Attempted
  <2>2. \A i \in 1..n : rows'[i] = rows[i]  BY <2>1
  <2>3. n \in 0..Len(rows') /\ SubSeq(rows', 1, n) = SubSeq(rows, 1, n)
    BY <1>0, <2>1, <2>2, SamePrefix
  <2>4. \A i \in 1..n : ~HasRow(c) => rows[i].id # c  BY DEF HasRow
  <2>5. \A i \in 1..n : pc'[rows'[i].id] \in {"idle", "refused", "returned"}
    <3>. TAKE i \in 1..n
    <3>1. rows'[i].id = rows[i].id /\ rows[i].id \in Calls  BY <1>9, <2>2
    <3>. QED  BY <2>1, <2>4, <3>1
  <2>. QED  BY <1>0, <2>1, <2>3, <2>5
<1>5. ASSUME NEW c \in Calls,
             \/ Record(c) \/ \E bill \in Bills : Send(c, bill)
             \/ \E status \in {"received", "failed", "cancelled"}, usage \in BOOLEAN :
                  Respond(c, status, usage)
      PROVE  Confirmed'
  <2>1. /\ billing' = billing /\ rows' = rows /\ up' = up /\ up
        /\ pc' = [pc EXCEPT ![c] = pc'[c]]
        /\ pc[c] \notin {"idle", "refused", "returned"}
    BY <1>5 DEF Record, Send, Respond, Alone
  <2>2. \A i \in 1..n : rows[i].id # c  BY <2>1
  <2>. QED  BY <1>0, <1>9, <2>1, <2>2
<1>6. ASSUME NEW c \in Calls, Settle(c)  PROVE Confirmed'
  <2>1. /\ billing' = billing /\ up' = up /\ up
        /\ pc' = [pc EXCEPT ![c] = pc'[c]]
        /\ pc[c] \notin {"idle", "refused", "returned"}
        /\ Len(rows') = Len(rows)
        /\ \A i \in 1..Len(rows) : rows[i].id # c => rows'[i] = rows[i]
    BY <1>6 DEF Settle, Alone
  <2>2. \A i \in 1..n : rows[i].id # c /\ rows'[i] = rows[i]  BY <2>1
  <2>3. SubSeq(rows', 1, n) = SubSeq(rows, 1, n)
    BY <1>0, <2>1, <2>2, SamePrefix
  <2>. QED  BY <1>0, <1>9, <2>1, <2>2, <2>3
<1>. QED  BY <1>1, <1>2, <1>3, <1>4, <1>5, <1>6 DEF Next

(* A confirmed bill always stands for the rows it was confirmed for, so    *)
(* Budget.accounted never raises "Reconciled call history changed".        *)
THEOREM ConfirmedHistory == Spec => []HistoryIntact
<1>1. Init => Confirmed
  BY DEF Init, Confirmed, Unconfirmed, Places
<1>2. Confirmed /\ Order /\ [Next]_vars => Confirmed'
  <2>. HAVE Confirmed /\ Order /\ [Next]_vars
  <2>1. CASE Next  BY <2>1, ConfirmedStep DEF Order
  <2>2. CASE UNCHANGED vars  BY <2>2 DEF Confirmed, vars
  <2>. QED  BY <2>1, <2>2
<1>3. Confirmed => HistoryIntact  BY DEF Confirmed, HistoryIntact
<1>. QED  BY <1>1, <1>2, <1>3, OrderInvariant, PTL DEF Spec
-----------------------------------------------------------------------------
(* A ledger r and the charges f read as an account: for the rows after the *)
(* k-th, what the ledger has accounted, what the provider charged, how far *)
(* the charges exceed the reservations, and how far settled costs do.      *)
OverBound(x, c) == IF x > Bound[c] THEN x - Bound[c] ELSE 0
From(r, k) == k + 1..Len(r)

Accounted(r, k) == SumFunctionOnSet([i \in From(r, k) |-> r[i].accounted], From(r, k))
Cost(r, f, k) == SumFunctionOnSet([i \in From(r, k) |-> f[r[i].id]], From(r, k))
Beyond(r, f, k) ==
  SumFunctionOnSet([i \in From(r, k) |-> OverBound(f[r[i].id], r[i].id)], From(r, k))
Settled(r, k) ==
  SumFunctionOnSet([i \in From(r, k) |-> OverBound(r[i].accounted, r[i].id)], From(r, k))
ExcessIn(f, S) == SumFunctionOnSet([c \in S |-> OverBound(f[c], c)], S)

LEMMA CommittedIs == Committed = billing.actual + Accounted(rows, billing.through)
BY DEF Committed, SumFunction, Accounted, From

LEMMA ExcessIs ==
  ASSUME NEW S
  PROVE  Excess(S) = ExcessIn(spent, S)
BY DEF Excess, SumFunction, ExcessIn, OverBound

(* A row's fields, and the summands made of them.                          *)
LEMMA Fields ==
  ASSUME NEW r \in Seq(Row), NEW i \in 1..Len(r)
  PROVE  r[i].id \in Calls /\ r[i].accounted \in Nat
<1>1. r[i] \in Row  OBVIOUS
<1>. QED  BY <1>1 DEF Row

LEMMA OverType ==
  ASSUME NEW x \in Nat, NEW c \in Calls
  PROVE  OverBound(x, c) \in Nat
BY LedgerAssumption DEF OverBound

LEMMA Summands ==
  ASSUME NEW r \in Seq(Row), NEW f \in [Calls -> Nat], NEW k \in Nat
  PROVE  /\ IsFiniteSet(From(r, k))
         /\ \A i \in From(r, k) :
              /\ i \in 1..Len(r)
              /\ r[i].id \in Calls /\ r[i].accounted \in Nat /\ f[r[i].id] \in Nat
              /\ OverBound(f[r[i].id], r[i].id) \in Nat
              /\ OverBound(r[i].accounted, r[i].id) \in Nat
<1>1. IsFiniteSet(From(r, k)) /\ \A i \in From(r, k) : i \in 1..Len(r)
  BY FS_Interval DEF From
<1>2. \A i \in From(r, k) : r[i].id \in Calls /\ r[i].accounted \in Nat
  BY <1>1, Fields
<1>3. \A i \in From(r, k) : f[r[i].id] \in Nat  BY <1>2
<1>. QED  BY <1>1, <1>2, <1>3, OverType

LEMMA Totals ==
  ASSUME NEW r \in Seq(Row), NEW f \in [Calls -> Nat], NEW k \in Nat
  PROVE  /\ Accounted(r, k) \in Nat /\ Cost(r, f, k) \in Nat
         /\ Beyond(r, f, k) \in Nat /\ Settled(r, k) \in Nat
<1>1. Accounted(r, k) \in Nat  BY Summands, SumNat DEF Accounted
<1>2. Cost(r, f, k) \in Nat  BY Summands, SumNat DEF Cost
<1>3. Beyond(r, f, k) \in Nat  BY Summands, SumNat DEF Beyond
<1>4. Settled(r, k) \in Nat  BY Summands, SumNat DEF Settled
<1>. QED  BY <1>1, <1>2, <1>3, <1>4

LEMMA CallTotals ==
  ASSUME NEW f \in [Calls -> Nat], NEW S, S \subseteq Calls
  PROVE  /\ IsFiniteSet(S)
         /\ SumFunctionOnSet(f, S) \in Nat /\ ExcessIn(f, S) \in Nat
<1>1. IsFiniteSet(S)  BY LedgerAssumption, FS_Subset
<1>2. \A c \in S : f[c] \in Nat /\ OverBound(f[c], c) \in Nat  BY OverType
<1>3. ExcessIn(f, S) \in Nat  BY <1>1, <1>2, SumNat DEF ExcessIn
<1>. QED  BY <1>1, <1>2, <1>3, SumNat

(* An amount that is a price or its bound, against that price.             *)
LEMMA OversCover ==
  \A x, y, bound, ox, oy \in Nat :
    /\ y = x \/ y = bound
    /\ ox = IF x > bound THEN x - bound ELSE 0
    /\ oy = IF y > bound THEN y - bound ELSE 0
    => x + oy <= y + ox
OBVIOUS

(* Row by row, what was charged and what a settlement cost beyond its      *)
(* reservation is at most what is accounted and the charge's own excess.   *)
LEMMA RowsCover ==
  ASSUME NEW r \in Seq(Row), NEW f \in [Calls -> Nat], NEW k \in Nat,
         \A i \in 1..Len(r) : r[i].accounted \in {Bound[r[i].id], f[r[i].id]}
  PROVE  Cost(r, f, k) + Settled(r, k) <= Accounted(r, k) + Beyond(r, f, k)
<1>. DEFINE a == [i \in From(r, k) |-> f[r[i].id]]
            o == [i \in From(r, k) |-> OverBound(r[i].accounted, r[i].id)]
            b == [i \in From(r, k) |-> r[i].accounted]
            e == [i \in From(r, k) |-> OverBound(f[r[i].id], r[i].id)]
<1>1. ASSUME NEW i \in From(r, k)
      PROVE  /\ a[i] \in Int /\ o[i] \in Int /\ b[i] \in Int /\ e[i] \in Int
             /\ a[i] + o[i] <= b[i] + e[i]
  <2>1. /\ i \in 1..Len(r) /\ r[i].id \in Calls
        /\ r[i].accounted \in Nat /\ f[r[i].id] \in Nat
        /\ OverBound(f[r[i].id], r[i].id) \in Nat
        /\ OverBound(r[i].accounted, r[i].id) \in Nat
    BY Summands
  <2>2. Bound[r[i].id] \in Nat  BY <2>1, LedgerAssumption
  <2>3. PICK x, y, bound, ox, oy \in Nat :
          /\ x = f[r[i].id] /\ y = r[i].accounted /\ bound = Bound[r[i].id]
          /\ ox = OverBound(f[r[i].id], r[i].id) /\ oy = OverBound(r[i].accounted, r[i].id)
    BY <2>1, <2>2
  <2>4. r[i].accounted = f[r[i].id] \/ r[i].accounted = Bound[r[i].id]  BY <2>1
  <2>5. f[r[i].id] + OverBound(r[i].accounted, r[i].id)
          <= r[i].accounted + OverBound(f[r[i].id], r[i].id)
    <3>1. y = x \/ y = bound  BY <2>3, <2>4
    <3>2. /\ ox = IF x > bound THEN x - bound ELSE 0
          /\ oy = IF y > bound THEN y - bound ELSE 0
      BY <2>3 DEF OverBound
    <3>3. x + oy <= y + ox  BY <3>1, <3>2, OversCover
    <3>. QED  BY <2>3, <3>3
  <2>. QED  BY <2>1, <2>5
<1>2. IsFiniteSet(From(r, k))  BY Summands
<1>. HIDE DEF a, o, b, e
<1>3. IntsOn(a, From(r, k)) /\ IntsOn(o, From(r, k))
      /\ IntsOn(b, From(r, k)) /\ IntsOn(e, From(r, k))
  BY <1>1 DEF IntsOn
<1>4. SumFunctionOnSet(a, From(r, k)) + SumFunctionOnSet(o, From(r, k))
        <= SumFunctionOnSet(b, From(r, k)) + SumFunctionOnSet(e, From(r, k))
  BY <1>1, <1>2, <1>3, SumsBounded
<1>. QED  BY <1>4 DEF a, o, b, e, Cost, Settled, Accounted, Beyond
-----------------------------------------------------------------------------
(* The ledger q adds to r a row for the call c, or reprices its i-th row;  *)
(* that row is the only one of c; the charges h charge the bill to c.      *)
Adds(r, q, c) == q = Append(r, [id |-> c, accounted |-> Bound[c]])
OnlyRow(r, i, c) == r[i].id = c /\ \A j \in 1..Len(r) : r[j].id = c => j = i
Unsettled(r, i, c) == r[i].id = c /\ r[i].accounted = Bound[c]
Charges(f, h, c, bill) == h = [f EXCEPT ![c] = @ + bill]
Reprices(r, q, i, cost) ==
  /\ Len(q) = Len(r) /\ q[i].accounted = cost
  /\ \A j \in 1..Len(r) : q[j].id = r[j].id
  /\ \A j \in 1..Len(r) : j # i => q[j] = r[j]

(* How the totals change: a reservation adds a row at its bound, ...       *)
LEMMA Reserving ==
  ASSUME NEW r \in Seq(Row), NEW f \in [Calls -> Nat], NEW c \in Calls, f[c] = 0,
         NEW q, Adds(r, q, c), NEW k \in 0..Len(r)
  PROVE  /\ Accounted(q, k) = Accounted(r, k) + Bound[c]
         /\ Cost(q, f, k) = Cost(r, f, k)
         /\ Beyond(q, f, k) = Beyond(r, f, k)
         /\ Settled(q, k) = Settled(r, k)
<1>. USE DEF Adds
<1>. DEFINE n == Len(r)
<1>1. n \in Nat /\ k \in Nat /\ k <= n  OBVIOUS
<1>2. /\ Len(q) = n + 1
      /\ q[n + 1].id = c /\ q[n + 1].accounted = Bound[c]
      /\ \A i \in 1..n : q[i] = r[i]
  OBVIOUS
<1>3. Bound[c] \in Nat \ {0}  BY LedgerAssumption
<1>. DEFINE I == From(r, k)
            x == n + 1
            J == I \cup {x}
<1>4. From(q, k) = J /\ x \notin I  BY <1>1, <1>2 DEF From
<1>5. \A i \in I : i \in 1..n  BY <1>1 DEF From
<1>6. IsFiniteSet(I)  BY <1>1, Summands
<1>7. OverBound(f[c], c) = 0 /\ OverBound(Bound[c], c) = 0
  BY <1>3 DEF OverBound
<1>8. \A i \in I : /\ r[i].accounted \in Int /\ f[r[i].id] \in Int
                          /\ OverBound(f[r[i].id], r[i].id) \in Int
                          /\ OverBound(r[i].accounted, r[i].id) \in Int
  BY <1>1, Summands
<1>9. /\ Cost(r, f, k) \in Int /\ Beyond(r, f, k) \in Int /\ Settled(r, k) \in Int
  BY <1>1, Totals
<1>. HIDE DEF n, I, x
<1>10. Accounted(q, k) = Accounted(r, k) + Bound[c]
  <2>. DEFINE g == [i \in I |-> r[i].accounted]
              h == [i \in J |-> q[i].accounted]
  <2>1. IntsOn(g, I) /\ SameOn(h, g, I)  BY <1>2, <1>5, <1>8 DEF IntsOn, SameOn
  <2>2. h[x] = Bound[c]  BY <1>2 DEF x
  <2>3. /\ Accounted(r, k) = SumFunctionOnSet(g, I)
        /\ Accounted(q, k) = SumFunctionOnSet(h, J)
    BY <1>4 DEF I, Accounted
  <2>. HIDE DEF g, h
  <2>4. h[x] \in Int  BY <1>3, <2>2
  <2>5. SumFunctionOnSet(h, J) = SumFunctionOnSet(g, I) + h[x]
    BY ONLY <1>4, <1>6, <2>1, <2>4, SumGrows
  <2>. QED  BY <1>4, <1>9, <2>2, <2>3, <2>5
<1>11. Cost(q, f, k) = Cost(r, f, k)
  <2>. DEFINE g == [i \in I |-> f[r[i].id]]
              h == [i \in J |-> f[q[i].id]]
  <2>1. IntsOn(g, I) /\ SameOn(h, g, I)  BY <1>2, <1>5, <1>8 DEF IntsOn, SameOn
  <2>2. h[x] = 0  BY <1>2 DEF x
  <2>3. /\ Cost(r, f, k) = SumFunctionOnSet(g, I)
        /\ Cost(q, f, k) = SumFunctionOnSet(h, J)
    BY <1>4 DEF I, Cost
  <2>. HIDE DEF g, h
  <2>4. h[x] \in Int  BY <1>3, <2>2
  <2>5. SumFunctionOnSet(h, J) = SumFunctionOnSet(g, I) + h[x]
    BY ONLY <1>4, <1>6, <2>1, <2>4, SumGrows
  <2>. QED  BY <1>4, <1>9, <2>2, <2>3, <2>5
<1>12. Beyond(q, f, k) = Beyond(r, f, k)
  <2>. DEFINE g == [i \in I |-> OverBound(f[r[i].id], r[i].id)]
              h == [i \in J |-> OverBound(f[q[i].id], q[i].id)]
  <2>1. IntsOn(g, I) /\ SameOn(h, g, I)  BY <1>2, <1>5, <1>8 DEF IntsOn, SameOn
  <2>2. h[x] = 0  BY <1>2, <1>7 DEF x
  <2>3. /\ Beyond(r, f, k) = SumFunctionOnSet(g, I)
        /\ Beyond(q, f, k) = SumFunctionOnSet(h, J)
    BY <1>4 DEF I, Beyond
  <2>. HIDE DEF g, h
  <2>4. h[x] \in Int  BY <1>3, <2>2
  <2>5. SumFunctionOnSet(h, J) = SumFunctionOnSet(g, I) + h[x]
    BY ONLY <1>4, <1>6, <2>1, <2>4, SumGrows
  <2>. QED  BY <1>4, <1>9, <2>2, <2>3, <2>5
<1>13. Settled(q, k) = Settled(r, k)
  <2>. DEFINE g == [i \in I |-> OverBound(r[i].accounted, r[i].id)]
              h == [i \in J |-> OverBound(q[i].accounted, q[i].id)]
  <2>1. IntsOn(g, I) /\ SameOn(h, g, I)  BY <1>2, <1>5, <1>8 DEF IntsOn, SameOn
  <2>2. h[x] = 0  BY <1>2, <1>7 DEF x
  <2>3. /\ Settled(r, k) = SumFunctionOnSet(g, I)
        /\ Settled(q, k) = SumFunctionOnSet(h, J)
    BY <1>4 DEF I, Settled
  <2>. HIDE DEF g, h
  <2>4. h[x] \in Int  BY <1>3, <2>2
  <2>5. SumFunctionOnSet(h, J) = SumFunctionOnSet(g, I) + h[x]
    BY ONLY <1>4, <1>6, <2>1, <2>4, SumGrows
  <2>. QED  BY <1>4, <1>9, <2>2, <2>3, <2>5
<1>. QED  BY <1>10, <1>11, <1>12, <1>13

(* ... a charge adds to the cost, and to the excess, of one call, ...      *)
LEMMA Charging ==
  ASSUME NEW r \in Seq(Row), NEW f \in [Calls -> Nat], NEW c \in Calls, NEW bill \in Nat,
         NEW h, Charges(f, h, c, bill),
         NEW k \in 0..Len(r), NEW i \in From(r, k), OnlyRow(r, i, c),
         NEW S, S \subseteq Calls, c \in S
  PROVE  /\ Cost(r, h, k) = Cost(r, f, k) + bill
         /\ SumFunctionOnSet(h, S) = SumFunctionOnSet(f, S) + bill
         /\ Beyond(r, h, k) - Beyond(r, f, k) = ExcessIn(h, S) - ExcessIn(f, S)
<1>. USE DEF Charges, OnlyRow
<1>. DEFINE I == From(r, k)
            d == OverBound(h[c], c) - OverBound(f[c], c)
<1>1. k \in Nat /\ h \in [Calls -> Nat] /\ h[c] = f[c] + bill  OBVIOUS
<1>2. IsFiniteSet(I) /\ IsFiniteSet(S) /\ i \in I /\ c \in S
  BY <1>1, Summands, CallTotals
<1>3. \A j \in I : /\ r[j].id \in Calls /\ f[r[j].id] \in Int
                   /\ OverBound(f[r[j].id], r[j].id) \in Int
  BY <1>1, Summands
<1>4. \A j \in I \ {i} : r[j].id \in Calls \ {c}
  BY <1>1, <1>3, Summands
<1>5. \A b \in Calls \ {c} : h[b] = f[b]  OBVIOUS
<1>6. f[c] \in Nat /\ h[c] \in Nat  BY <1>1
<1>7. OverBound(f[c], c) \in Int /\ OverBound(h[c], c) \in Int  BY <1>6, OverType
<1>8. /\ Cost(r, f, k) \in Int /\ Beyond(r, f, k) \in Int
      /\ SumFunctionOnSet(f, S) \in Int /\ ExcessIn(f, S) \in Int
  <2>1. Cost(r, f, k) \in Nat /\ Beyond(r, f, k) \in Nat  BY <1>1, Totals
  <2>2. SumFunctionOnSet(f, S) \in Nat /\ ExcessIn(f, S) \in Nat  BY CallTotals
  <2>. QED  BY <2>1, <2>2
<1>. HIDE DEF I, d
<1>9. Cost(r, h, k) = Cost(r, f, k) + bill
  <2>. DEFINE u == [j \in I |-> f[r[j].id]]
              v == [j \in I |-> h[r[j].id]]
  <2>1. IntsOn(u, I)  BY <1>3 DEF IntsOn
  <2>2. SameOn(v, u, I \ {i})  BY <1>4, <1>5 DEF SameOn
  <2>3. u[i] = f[c] /\ v[i] = h[c]  BY <1>2
  <2>4. Cost(r, f, k) = SumFunctionOnSet(u, I) /\ Cost(r, h, k) = SumFunctionOnSet(v, I)
    BY DEF Cost, I
  <2>. HIDE DEF u, v
  <2>5. v[i] \in Int  BY <1>6, <2>3
  <2>6. SumFunctionOnSet(v, I) = SumFunctionOnSet(u, I) - u[i] + v[i]
    BY ONLY <1>2, <2>1, <2>2, <2>5, SumUpdate
  <2>. QED  BY <1>1, <1>6, <1>8, <2>3, <2>4, <2>6
<1>10. SumFunctionOnSet(h, S) = SumFunctionOnSet(f, S) + bill
  <2>1. IntsOn(f, S)  BY DEF IntsOn
  <2>2. SameOn(h, f, S \ {c})  BY <1>5 DEF SameOn
  <2>3. h[c] \in Int  BY <1>6
  <2>4. SumFunctionOnSet(h, S) = SumFunctionOnSet(f, S) - f[c] + h[c]
    BY ONLY <1>2, <2>3, <2>1, <2>2, SumUpdate
  <2>. QED  BY <1>1, <1>6, <1>8, <2>4
<1>11. Beyond(r, h, k) = Beyond(r, f, k) + d
  <2>. DEFINE u == [j \in I |-> OverBound(f[r[j].id], r[j].id)]
              v == [j \in I |-> OverBound(h[r[j].id], r[j].id)]
  <2>1. IntsOn(u, I)  BY <1>3 DEF IntsOn
  <2>2. SameOn(v, u, I \ {i})  BY <1>4, <1>5 DEF SameOn
  <2>3. u[i] = OverBound(f[c], c) /\ v[i] = OverBound(h[c], c)  BY <1>2
  <2>4. /\ Beyond(r, f, k) = SumFunctionOnSet(u, I)
        /\ Beyond(r, h, k) = SumFunctionOnSet(v, I)
    BY DEF Beyond, I
  <2>. HIDE DEF u, v
  <2>5. v[i] \in Int  BY <1>7, <2>3
  <2>6. SumFunctionOnSet(v, I) = SumFunctionOnSet(u, I) - u[i] + v[i]
    BY ONLY <1>2, <2>1, <2>2, <2>5, SumUpdate
  <2>. QED  BY <1>7, <1>8, <2>3, <2>4, <2>6 DEF d
<1>12. ExcessIn(h, S) = ExcessIn(f, S) + d
  <2>. DEFINE u == [b \in S |-> OverBound(f[b], b)]
              v == [b \in S |-> OverBound(h[b], b)]
  <2>1. IntsOn(u, S)  BY OverType DEF IntsOn
  <2>2. SameOn(v, u, S \ {c})  BY <1>5 DEF SameOn
  <2>3. u[c] = OverBound(f[c], c) /\ v[c] = OverBound(h[c], c)  OBVIOUS
  <2>4. ExcessIn(f, S) = SumFunctionOnSet(u, S) /\ ExcessIn(h, S) = SumFunctionOnSet(v, S)
    BY DEF ExcessIn
  <2>. HIDE DEF u, v
  <2>5. v[c] \in Int  BY <1>7, <2>3
  <2>6. SumFunctionOnSet(v, S) = SumFunctionOnSet(u, S) - u[c] + v[c]
    BY ONLY <1>2, <2>1, <2>2, <2>5, SumUpdate
  <2>. QED  BY <1>7, <1>8, <2>3, <2>4, <2>6 DEF d
<1>13. d \in Int  BY <1>7 DEF d
<1>. QED  BY <1>8, <1>13, <1>9, <1>10, <1>11, <1>12

(* ... and a settlement replaces one reservation by its cost.              *)
LEMMA Settling ==
  ASSUME NEW r \in Seq(Row), NEW f \in [Calls -> Nat], NEW c \in Calls, NEW cost \in Nat,
         NEW k \in 0..Len(r), NEW i \in From(r, k), Unsettled(r, i, c),
         NEW q, Reprices(r, q, i, cost)
  PROVE  /\ Accounted(q, k) = Accounted(r, k) - Bound[c] + cost
         /\ Settled(q, k) = Settled(r, k) + OverBound(cost, c)
         /\ Cost(q, f, k) = Cost(r, f, k)
         /\ Beyond(q, f, k) = Beyond(r, f, k)
<1>. USE DEF Reprices, Unsettled
<1>. DEFINE I == From(r, k)
<1>1. k \in Nat /\ I = From(q, k)  BY DEF From
<1>2. IsFiniteSet(I) /\ i \in I /\ \A j \in I : j \in 1..Len(r)
  BY <1>1, Summands
<1>3. \A j \in I : r[j].accounted \in Int /\ OverBound(r[j].accounted, r[j].id) \in Int
  BY <1>1, Summands
<1>4. Bound[c] \in Nat /\ OverBound(Bound[c], c) = 0  BY LedgerAssumption DEF OverBound
<1>5. OverBound(cost, c) \in Int  BY OverType
<1>6. \A j \in I : q[j].id = r[j].id  BY <1>2
<1>7. \A j \in I \ {i} : q[j] = r[j]  BY <1>2
<1>8. Accounted(r, k) \in Int /\ Settled(r, k) \in Int  BY <1>1, Totals
<1>. HIDE DEF I
<1>9. Accounted(q, k) = Accounted(r, k) - Bound[c] + cost
  <2>. DEFINE u == [j \in I |-> r[j].accounted]
              v == [j \in I |-> q[j].accounted]
  <2>1. IntsOn(u, I)  BY <1>3 DEF IntsOn
  <2>2. SameOn(v, u, I \ {i})  BY <1>7 DEF SameOn
  <2>3. u[i] = Bound[c] /\ v[i] = cost  BY <1>2
  <2>4. Accounted(r, k) = SumFunctionOnSet(u, I) /\ Accounted(q, k) = SumFunctionOnSet(v, I)
    BY <1>1 DEF Accounted, I
  <2>. HIDE DEF u, v
  <2>5. v[i] \in Int  BY <2>3
  <2>6. SumFunctionOnSet(v, I) = SumFunctionOnSet(u, I) - u[i] + v[i]
    BY ONLY <1>2, <2>1, <2>2, <2>5, SumUpdate
  <2>. QED  BY <2>3, <2>4, <2>6
<1>10. Settled(q, k) = Settled(r, k) + OverBound(cost, c)
  <2>. DEFINE u == [j \in I |-> OverBound(r[j].accounted, r[j].id)]
              v == [j \in I |-> OverBound(q[j].accounted, q[j].id)]
  <2>1. IntsOn(u, I)  BY <1>3 DEF IntsOn
  <2>2. SameOn(v, u, I \ {i})  BY <1>7 DEF SameOn
  <2>3. u[i] = 0 /\ v[i] = OverBound(cost, c)  BY <1>2, <1>4, <1>6
  <2>4. Settled(r, k) = SumFunctionOnSet(u, I) /\ Settled(q, k) = SumFunctionOnSet(v, I)
    BY <1>1 DEF Settled, I
  <2>. HIDE DEF u, v
  <2>5. SumFunctionOnSet(v, I) = SumFunctionOnSet(u, I) - u[i] + v[i]
    BY ONLY <1>2, <1>5, <2>1, <2>2, <2>3, SumUpdate
  <2>. QED  BY <1>5, <1>8, <2>3, <2>4, <2>5
<1>11. Cost(q, f, k) = Cost(r, f, k)
  <2>. DEFINE u == [j \in I |-> f[r[j].id]]
              v == [j \in I |-> f[q[j].id]]
  <2>1. SameOn(v, u, I)  BY <1>6 DEF SameOn
  <2>2. Cost(r, f, k) = SumFunctionOnSet(u, I) /\ Cost(q, f, k) = SumFunctionOnSet(v, I)
    BY <1>1 DEF Cost, I
  <2>. HIDE DEF u, v
  <2>. QED  BY <1>2, <2>1, <2>2, SameSum
<1>12. Beyond(q, f, k) = Beyond(r, f, k)
  <2>. DEFINE u == [j \in I |-> OverBound(f[r[j].id], r[j].id)]
              v == [j \in I |-> OverBound(f[q[j].id], q[j].id)]
  <2>1. SameOn(v, u, I)  BY <1>6 DEF SameOn
  <2>2. Beyond(r, f, k) = SumFunctionOnSet(u, I) /\ Beyond(q, f, k) = SumFunctionOnSet(v, I)
    BY <1>1 DEF Beyond, I
  <2>. HIDE DEF u, v
  <2>. QED  BY <1>2, <2>1, <2>2, SameSum
<1>. QED  BY <1>9, <1>10, <1>11, <1>12
-----------------------------------------------------------------------------
(* The inductive invariant of the money.                                   *)
Engaged == {"reserved", "recorded", "sending", "priced", "unpriced"}

Amounts ==
  /\ up \in BOOLEAN /\ Len(rows) <= MaxCalls
  /\ billing \in [through: Nat, prefix: Seq(Row), actual: Nat]
  /\ billing.through <= Len(rows)
  /\ ceiling \in Nat /\ before \subseteq Calls

(* A call has one row, is charged nothing before it has one, and its row   *)
(* stands for its reservation or for its charge.                           *)
Entries ==
  /\ \A i, j \in 1..Len(rows) : rows[i].id = rows[j].id => i = j
  /\ \A c \in Calls : ~HasRow(c) => spent[c] = 0
  /\ \A i \in 1..Len(rows) : rows[i].accounted \in {Bound[rows[i].id], spent[rows[i].id]}

(* A call in progress has its row, at its reservation, after the k-th.     *)
Open(k) ==
  \A c \in Calls : pc[c] \in Engaged =>
    \E i \in From(rows, k) : rows[i].id = c /\ rows[i].accounted = Bound[c]

(* The account of the calls S, with charges f and the rows of the ledger r *)
(* after the k-th, when com is committed: the cost of those rows and base  *)
(* make up what S was charged, start and what they are accounted at make   *)
(* up what is committed, and that passes the cap by no more than what      *)
(* settlements cost beyond their reservation.                              *)
Balanced(r, f, com, k, S, base, start, cap) ==
  /\ SumFunctionOnSet(f, S) = base + Cost(r, f, k)
  /\ ExcessIn(f, S) >= Beyond(r, f, k)
  /\ com = start + Accounted(r, k)
  /\ com <= cap + Settled(r, k)

(* The rows after the k-th are those of calls in S, the only ones that may *)
(* still get a row or be charged.                                          *)
Holds(k, S) ==
  /\ k \in 0..Len(rows)
  /\ \A i \in From(rows, k) : rows[i].id \in S
  /\ \A c \in Calls : ~HasRow(c) => c \in S
  /\ Open(k)

Account(k, S, base, start, cap) ==
  Holds(k, S) /\ Balanced(rows, spent, Committed, k, S, base, start, cap)

(* All calls under the shared limit, from the confirmed bill on; and those *)
(* of this run under its ceiling, from the ledger it loaded on.            *)
Shared ==
  \E k, bill \in Nat :
    /\ k = billing.through /\ bill = billing.actual
    /\ Account(k, Calls, bill, bill, Limit)
OfRun ==
  \E k, start, cap \in Nat, S \in SUBSET Calls :
    /\ S = Calls \ before /\ cap = ceiling /\ cap = start + Increment
    /\ Account(k, S, 0, start, cap)

Books ==
  /\ Amounts /\ Entries
  /\ ~up => \A c \in Calls : pc[c] = "idle"
  /\ Shared /\ (up => OfRun)
-----------------------------------------------------------------------------
(* A reservation the cap allows keeps an account balanced, ...             *)
LEMMA BalanceReserves ==
  ASSUME NEW r \in Seq(Row), NEW f \in [Calls -> Nat], NEW c \in Calls, f[c] = 0,
         NEW q, Adds(r, q, c), NEW k \in 0..Len(r),
         NEW S, S \subseteq Calls, NEW base \in Nat, NEW start \in Nat, NEW cap \in Nat,
         NEW com \in Nat, com + Bound[c] <= cap, Balanced(r, f, com, k, S, base, start, cap)
  PROVE  Balanced(q, f, com + Bound[c], k, S, base, start, cap)
<1>1. /\ Accounted(q, k) = Accounted(r, k) + Bound[c]
      /\ Cost(q, f, k) = Cost(r, f, k)
      /\ Beyond(q, f, k) = Beyond(r, f, k)
      /\ Settled(q, k) = Settled(r, k)
  BY Reserving
<1>2. k \in Nat /\ Bound[c] \in Nat  BY LedgerAssumption
<1>3. Accounted(r, k) \in Nat /\ Settled(r, k) \in Nat  BY <1>2, Totals
<1>. QED  BY <1>1, <1>2, <1>3 DEF Balanced

(* ... so does a charge for a call that has its row in it, ...             *)
LEMMA BalanceCharged ==
  ASSUME NEW r \in Seq(Row), NEW f \in [Calls -> Nat], NEW c \in Calls, NEW bill \in Nat,
         NEW h, Charges(f, h, c, bill),
         NEW k \in 0..Len(r), NEW i \in From(r, k), OnlyRow(r, i, c),
         NEW S, S \subseteq Calls, c \in S, NEW base \in Nat, NEW start \in Nat,
         NEW cap \in Nat, NEW com \in Nat, Balanced(r, f, com, k, S, base, start, cap)
  PROVE  Balanced(r, h, com, k, S, base, start, cap)
<1>1. /\ Cost(r, h, k) = Cost(r, f, k) + bill
      /\ SumFunctionOnSet(h, S) = SumFunctionOnSet(f, S) + bill
      /\ Beyond(r, h, k) - Beyond(r, f, k) = ExcessIn(h, S) - ExcessIn(f, S)
  BY Charging
<1>2. k \in Nat /\ h \in [Calls -> Nat]  BY DEF Charges
<1>3. Cost(r, f, k) \in Nat /\ Beyond(r, f, k) \in Nat  BY <1>2, Totals
<1>4. Beyond(r, h, k) \in Nat  BY <1>2, Totals
<1>5. ExcessIn(f, S) \in Nat /\ ExcessIn(h, S) \in Nat  BY <1>2, CallTotals
<1>6. SumFunctionOnSet(h, S) = base + Cost(r, h, k)
  BY <1>1, <1>3 DEF Balanced
<1>7. ExcessIn(h, S) >= Beyond(r, h, k)
  BY <1>1, <1>3, <1>4, <1>5 DEF Balanced
<1>. QED  BY <1>6, <1>7 DEF Balanced

(* ... and so does a settlement.                                           *)
LEMMA BalanceSettles ==
  ASSUME NEW r \in Seq(Row), NEW f \in [Calls -> Nat], NEW c \in Calls, NEW cost \in Nat,
         NEW k \in 0..Len(r), NEW i \in From(r, k), Unsettled(r, i, c),
         NEW q, Reprices(r, q, i, cost),
         NEW S, S \subseteq Calls, NEW base \in Nat, NEW start \in Nat, NEW cap \in Nat,
         NEW com \in Nat, Balanced(r, f, com, k, S, base, start, cap)
  PROVE  Balanced(q, f, com - Bound[c] + cost, k, S, base, start, cap)
<1>1. /\ Accounted(q, k) = Accounted(r, k) - Bound[c] + cost
      /\ Settled(q, k) = Settled(r, k) + OverBound(cost, c)
      /\ Cost(q, f, k) = Cost(r, f, k)
      /\ Beyond(q, f, k) = Beyond(r, f, k)
  BY Settling
<1>2. k \in Nat /\ Bound[c] \in Nat /\ OverBound(cost, c) \in Nat
  BY LedgerAssumption, OverType
<1>3. Accounted(r, k) \in Nat /\ Settled(r, k) \in Nat  BY <1>2, Totals
<1>4. cost - Bound[c] <= OverBound(cost, c)  BY <1>2 DEF OverBound
<1>5. /\ com = start + Accounted(r, k)
      /\ com <= cap + Settled(r, k)
  BY DEF Balanced
<1>. PICK x \in Nat, y \in Nat, a \in Nat, b \in Nat :
       x = Bound[c] /\ y = OverBound(cost, c) /\ a = Accounted(r, k) /\ b = Settled(r, k)
  BY <1>2, <1>3
<1>6. /\ com - x + cost = start + (a - x + cost)
      /\ com - x + cost <= cap + (b + y)
  <2>1. com = start + a /\ com <= cap + b /\ cost - x <= y  BY <1>4, <1>5
  <2>. QED
    BY ONLY <2>1, com \in Nat, cost \in Nat, start \in Nat, cap \in Nat,
            x \in Nat, y \in Nat, a \in Nat, b \in Nat
<1>. QED  BY <1>1, <1>6 DEF Balanced
-----------------------------------------------------------------------------
(* A step of a coroutine.                                                  *)
Works(c) ==
  \/ Request(c) \/ Record(c) \/ Settle(c)
  \/ \E bill \in Bills : Send(c, bill)
  \/ \E status \in {"received", "failed", "cancelled"}, usage \in BOOLEAN :
       Respond(c, status, usage)

LEMMA CommittedNext == Committed' = billing'.actual + Accounted(rows', billing'.through)
BY DEF Committed, SumFunction, Accounted, From

LEMMA CommittedType ==
  ASSUME Ranges, Amounts
  PROVE  Committed \in Nat /\ billing.actual \in Nat /\ billing.through \in 0..Len(rows)
<1>1. /\ rows \in Seq(Row) /\ spent \in [Calls -> Nat]
      /\ billing.through \in Nat /\ billing.actual \in Nat
      /\ billing.through <= Len(rows)
  BY DEF Ranges, Amounts
<1>2. Accounted(rows, billing.through) \in Nat  BY <1>1, Totals
<1>. QED  BY <1>1, <1>2, CommittedIs

(* What is committed after a reservation and after a settlement.           *)
LEMMA CommittedReserves ==
  ASSUME Ranges, Amounts, NEW c \in Calls, spent[c] = 0, billing' = billing,
         Adds(rows, rows', c), NEW t, t = billing.through
  PROVE  Committed' = Committed + Bound[c]
<1>1. rows \in Seq(Row) /\ spent \in [Calls -> Nat] /\ Bound[c] \in Nat
  BY LedgerAssumption DEF Ranges
<1>2. t \in 0..Len(rows) /\ billing.actual \in Nat  BY CommittedType
<1>3. Accounted(rows', t) = Accounted(rows, t) + Bound[c]
  BY <1>1, <1>2, Reserving
<1>4. Accounted(rows, t) \in Nat
  <2>1. t \in Nat  BY <1>2
  <2>. QED  BY <1>1, <2>1, Totals
<1>. QED  BY <1>1, <1>2, <1>3, <1>4, CommittedIs, CommittedNext

LEMMA CommittedSettles ==
  ASSUME Ranges, Amounts, NEW c \in Calls, NEW cost \in Nat,
         NEW t, t = billing.through, NEW i \in From(rows, t), Unsettled(rows, i, c),
         Reprices(rows, rows', i, cost), billing' = billing
  PROVE  Committed' = Committed - Bound[c] + cost
<1>1. rows \in Seq(Row) /\ spent \in [Calls -> Nat] /\ Bound[c] \in Nat
  BY LedgerAssumption DEF Ranges
<1>2. t \in 0..Len(rows) /\ billing.actual \in Nat  BY CommittedType
<1>3. Accounted(rows', t)
        = Accounted(rows, t) - Bound[c] + cost
  BY <1>1, <1>2, Settling
<1>4. Accounted(rows, t) \in Nat
  <2>1. t \in Nat  BY <1>2
  <2>. QED  BY <1>1, <2>1, Totals
<1>. QED  BY <1>1, <1>2, <1>3, <1>4, CommittedIs, CommittedNext
-----------------------------------------------------------------------------
(* A row is reserved: the account takes it in, if its cap allows it.       *)
LEMMA AccountReserves ==
  ASSUME Ranges, Amounts, Entries, NEW c \in Calls,
         Adds(rows, rows', c), ~HasRow(c),
         spent' = spent, billing' = billing, pc' = [pc EXCEPT ![c] = "reserved"],
         NEW k \in Nat, NEW S, S \subseteq Calls, NEW base \in Nat, NEW start \in Nat,
         NEW cap \in Nat, Account(k, S, base, start, cap), Committed + Bound[c] <= cap
  PROVE  Account(k, S, base, start, cap)'
<1>1. rows \in Seq(Row) /\ spent \in [Calls -> Nat] /\ pc \in [Calls -> Places]
  BY DEF Ranges
<1>2. spent[c] = 0  BY DEF Entries
<1>3. k \in 0..Len(rows) /\ c \in S  BY DEF Account, Holds
<1>4. Committed \in Nat  BY CommittedType
<1>5. Committed' = Committed + Bound[c]
  <2>. PICK t : t = billing.through  OBVIOUS
  <2>. QED  BY <1>2, CommittedReserves
<1>. DEFINE n == Len(rows)
<1>6. /\ Len(rows') = n + 1 /\ n \in Nat
      /\ rows'[n + 1].id = c /\ rows'[n + 1].accounted = Bound[c]
      /\ \A i \in 1..n : rows'[i] = rows[i]
  BY <1>1 DEF Adds
<1>7. Balanced(rows', spent, Committed + Bound[c], k, S, base, start, cap)
  <2>1. Balanced(rows, spent, Committed, k, S, base, start, cap)  BY DEF Account
  <2>. QED  BY <1>1, <1>2, <1>3, <1>4, <2>1, BalanceReserves
<1>. HIDE DEF n
<1>8. From(rows, k) \subseteq 1..n /\ From(rows', k) = From(rows, k) \cup {n + 1}
  BY <1>3, <1>6 DEF From, n
<1>9. k \in 0..Len(rows')  BY <1>3, <1>6 DEF n
<1>10. \A i \in From(rows', k) : rows'[i].id \in S
  BY <1>3, <1>6, <1>8 DEF Account, Holds
<1>11. \A d \in Calls : ~HasRow(d)' => d \in S
  <2>. SUFFICES ASSUME NEW d \in Calls, ~HasRow(d)' PROVE d \in S
    OBVIOUS
  <2>1. ~HasRow(d)  BY <1>6 DEF HasRow, n
  <2>. QED  BY <2>1 DEF Account, Holds
<1>12. Open(k)'
  <2>. SUFFICES ASSUME NEW d \in Calls, pc'[d] \in Engaged
                PROVE  \E i \in From(rows', k) : rows'[i].id = d /\ rows'[i].accounted = Bound[d]
    BY DEF Open
  <2>1. CASE d = c  BY <1>6, <1>8, <2>1
  <2>2. CASE d # c
    <3>1. pc[d] \in Engaged  BY <1>1, <2>2
    <3>2. PICK i \in From(rows, k) : rows[i].id = d /\ rows[i].accounted = Bound[d]
      BY <3>1 DEF Account, Holds, Open
    <3>. QED  BY <1>6, <1>8, <3>2
  <2>. QED  BY <2>1, <2>2
<1>. QED  BY <1>5, <1>7, <1>9, <1>10, <1>11, <1>12 DEF Account, Holds

(* A charge for an open call adds the same to both sides of its account.   *)
LEMMA AccountCharged ==
  ASSUME Ranges, Amounts, Entries, NEW c \in Calls, NEW bill \in Nat,
         pc[c] = "recorded", pc' = [pc EXCEPT ![c] = "sending"],
         spent' = [spent EXCEPT ![c] = @ + bill], rows' = rows, billing' = billing,
         NEW k \in Nat, NEW S, S \subseteq Calls, NEW base \in Nat, NEW start \in Nat,
         NEW cap \in Nat, Account(k, S, base, start, cap)
  PROVE  Account(k, S, base, start, cap)'
<1>1. rows \in Seq(Row) /\ spent \in [Calls -> Nat] /\ pc \in [Calls -> Places]
  BY DEF Ranges
<1>2. k \in 0..Len(rows)  BY DEF Account, Holds
<1>3. PICK i \in From(rows, k) : rows[i].id = c
  BY DEF Account, Holds, Open, Engaged
<1>4. c \in S /\ i \in 1..Len(rows)  BY <1>2, <1>3 DEF Account, Holds, From
<1>5. \A j \in 1..Len(rows) : rows[j].id = c => j = i
  BY <1>3, <1>4 DEF Entries
<1>6. Committed \in Nat  BY CommittedType
<1>7. Balanced(rows, spent', Committed, k, S, base, start, cap)
  <2>1. Balanced(rows, spent, Committed, k, S, base, start, cap)  BY DEF Account
  <2>2. Charges(spent, spent', c, bill)  BY DEF Charges
  <2>3. OnlyRow(rows, i, c)  BY <1>3, <1>5 DEF OnlyRow
  <2>. QED
    BY ONLY <1>1, <1>2, <1>3, <1>4, <1>6, <2>1, <2>2, <2>3, BalanceCharged,
            c \in Calls, bill \in Nat, i \in From(rows, k), S \subseteq Calls,
            base \in Nat, start \in Nat, cap \in Nat
<1>8. Committed' = Committed  BY CommittedIs, CommittedNext
<1>9. Open(k)'
  <2>1. \A d \in Calls : pc'[d] \in Engaged => pc[d] \in Engaged
    BY <1>1 DEF Engaged
  <2>. QED  BY <2>1 DEF Account, Holds, Open
<1>10. \A d \in Calls : HasRow(d)' = HasRow(d)  BY DEF HasRow
<1>. QED  BY <1>7, <1>8, <1>9, <1>10 DEF Account, Holds

(* A settlement moves the account by what it differs from the reservation. *)
LEMMA AccountSettles ==
  ASSUME Ranges, Amounts, Entries, NEW c \in Calls, Settle(c), Open(billing.through),
         NEW k \in Nat, NEW S, S \subseteq Calls, NEW base \in Nat, NEW start \in Nat,
         NEW cap \in Nat, Account(k, S, base, start, cap)
  PROVE  Account(k, S, base, start, cap)'
<1>. DEFINE cost == SettledCost(c)
<1>. PICK t : t = billing.through  OBVIOUS
<1>1. /\ rows \in Seq(Row) /\ spent \in [Calls -> Nat] /\ pc \in [Calls -> Places]
      /\ spent' = spent /\ billing' = billing
  BY DEF Ranges, Settle
<1>2. k \in 0..Len(rows) /\ Bound[c] \in Nat  BY LedgerAssumption DEF Account, Holds
<1>3. t \in 0..Len(rows) /\ Committed \in Nat  BY CommittedType
<1>4. cost \in Nat  BY <1>1, <1>2 DEF SettledCost
<1>5. pc[c] \in Engaged /\ \A d \in Calls : pc'[d] \in Engaged => d # c /\ pc[d] \in Engaged
  BY <1>1 DEF Settle, Engaged
<1>6. PICK i \in From(rows, k) : rows[i].id = c /\ rows[i].accounted = Bound[c]
  BY <1>5 DEF Account, Holds, Open
<1>7. PICK j \in From(rows, t) : rows[j].id = c /\ rows[j].accounted = Bound[c]
  BY <1>5 DEF Open
<1>8. i \in 1..Len(rows) /\ j = i
  <2>1. i \in 1..Len(rows) /\ j \in 1..Len(rows)  BY <1>2, <1>3 DEF From
  <2>. QED  BY <1>6, <1>7, <2>1 DEF Entries
<1>9. /\ Len(rows') = Len(rows)
      /\ \A l \in 1..Len(rows) : l # i => rows'[l] = rows[l]
      /\ rows'[i] = [rows[i] EXCEPT !.accounted = cost]
  <2>1. rows' = [l \in 1..Len(rows) |->
           IF rows[l].id = c THEN [rows[l] EXCEPT !.accounted = cost] ELSE rows[l]]
    BY DEF Settle
  <2>2. \A l \in 1..Len(rows) : rows[l].id = c => l = i
    BY <1>6, <1>8 DEF Entries
  <2>. HIDE DEF cost
  <2>3. \A l \in 1..Len(rows) : rows'[l] =
           IF rows[l].id = c THEN [rows[l] EXCEPT !.accounted = cost] ELSE rows[l]
    BY <2>1
  <2>4. Len(rows') = Len(rows)  BY <1>1, <2>1
  <2>. QED  BY <1>6, <1>8, <2>2, <2>3, <2>4
<1>10. rows'[i].accounted = cost /\ \A l \in 1..Len(rows) : rows'[l].id = rows[l].id
  <2>1. rows[i] \in Row  BY <1>1, <1>8
  <2>. HIDE DEF cost
  <2>2. rows'[i].accounted = cost /\ rows'[i].id = rows[i].id  BY <1>9, <2>1 DEF Row
  <2>. QED  BY <1>9, <2>2
<1>. HIDE DEF cost
<1>11. Reprices(rows, rows', i, cost) /\ Unsettled(rows, i, c)
  BY <1>6, <1>9, <1>10 DEF Reprices, Unsettled
<1>12. Committed' = Committed - Bound[c] + cost
  BY <1>1, <1>4, <1>7, <1>8, <1>11, CommittedSettles
<1>13. Balanced(rows', spent, Committed - Bound[c] + cost, k, S, base, start, cap)
  <2>1. Balanced(rows, spent, Committed, k, S, base, start, cap)  BY DEF Account
  <2>. QED  BY <1>1, <1>2, <1>3, <1>4, <1>6, <1>11, <2>1, BalanceSettles
<1>14. From(rows', k) = From(rows, k) /\ From(rows, k) \subseteq 1..Len(rows)
  BY <1>2, <1>9 DEF From
<1>15. k \in 0..Len(rows')  BY <1>2, <1>9
<1>16. \A l \in From(rows', k) : rows'[l].id \in S  BY <1>10, <1>14 DEF Account, Holds
<1>17. \A d \in Calls : ~HasRow(d)' => d \in S
  <2>1. \A d \in Calls : HasRow(d)' = HasRow(d)  BY <1>9, <1>10 DEF HasRow
  <2>. QED  BY <2>1 DEF Account, Holds
<1>18. Open(k)'
  <2>. SUFFICES ASSUME NEW d \in Calls, pc'[d] \in Engaged
                PROVE  \E l \in From(rows', k) : rows'[l].id = d /\ rows'[l].accounted = Bound[d]
    BY DEF Open
  <2>1. d # c /\ pc[d] \in Engaged  BY <1>5
  <2>2. PICK l \in From(rows, k) : rows[l].id = d /\ rows[l].accounted = Bound[d]
    BY <2>1 DEF Account, Holds, Open
  <2>3. l # i  BY <1>6, <2>1, <2>2
  <2>. QED  BY <1>9, <1>14, <2>2, <2>3
<1>. QED  BY <1>1, <1>12, <1>13, <1>15, <1>16, <1>17, <1>18 DEF Account, Holds

(* Steps that touch neither the ledger nor the charges.                    *)
LEMMA AccountKept ==
  ASSUME rows' = rows, spent' = spent, billing' = billing,
         \A c \in Calls : pc'[c] \in Engaged => pc[c] \in Engaged,
         NEW k, NEW S, NEW base, NEW start, NEW cap, Account(k, S, base, start, cap)
  PROVE  Account(k, S, base, start, cap)'
<1>1. Committed' = Committed  BY CommittedIs, CommittedNext
<1>2. Open(k)'  BY DEF Account, Holds, Open
<1>3. \A c \in Calls : HasRow(c)' = HasRow(c)  BY DEF HasRow
<1>. QED  BY <1>1, <1>2, <1>3 DEF Account, Holds
-----------------------------------------------------------------------------
(* Every step of a coroutine keeps the accounts it can afford.             *)
LEMMA AccountWorks ==
  ASSUME Ranges, Amounts, Entries, Open(billing.through), NEW c \in Calls, Works(c),
         NEW k \in Nat, NEW S, S \subseteq Calls, NEW base \in Nat, NEW start \in Nat,
         NEW cap \in Nat, Account(k, S, base, start, cap),
         Affordable(c) => Committed + Bound[c] <= cap
  PROVE  Account(k, S, base, start, cap)'
<1>1. pc \in [Calls -> Places]  BY DEF Ranges
<1>2. CASE Request(c)
  <2>1. CASE rows' = rows /\ pc' \in {[pc EXCEPT ![c] = "returned"], [pc EXCEPT ![c] = "refused"]}
    <3>1. \A d \in Calls : pc'[d] \in Engaged => pc[d] \in Engaged
      BY <1>1, <2>1 DEF Engaged
    <3>2. spent' = spent /\ billing' = billing  BY <1>2 DEF Request
    <3>. QED  BY <2>1, <3>1, <3>2, AccountKept
  <2>2. CASE /\ ~Attempted(c) /\ Affordable(c)
             /\ rows' = Append(rows, [id |-> c, accounted |-> Bound[c]])
             /\ pc' = [pc EXCEPT ![c] = "reserved"]
    <3>1. Adds(rows, rows', c) /\ ~HasRow(c)  BY <2>2 DEF Adds, Attempted
    <3>2. spent' = spent /\ billing' = billing  BY <1>2 DEF Request
    <3>3. Committed + Bound[c] <= cap  BY <2>2
    <3>. QED  BY <2>2, <3>1, <3>2, <3>3, AccountReserves
  <2>. QED  BY <1>2, <2>1, <2>2 DEF Request
<1>3. CASE Settle(c)  BY <1>3, AccountSettles
<1>4. CASE Record(c) \/ \E status \in {"received", "failed", "cancelled"}, usage \in BOOLEAN :
                          Respond(c, status, usage)
  <2>1. \A d \in Calls : pc'[d] \in Engaged => pc[d] \in Engaged
    BY <1>1, <1>4 DEF Engaged, Record, Respond
  <2>2. rows' = rows /\ spent' = spent /\ billing' = billing
    BY <1>4 DEF Record, Respond
  <2>. QED  BY <2>1, <2>2, AccountKept
<1>5. ASSUME NEW bill \in Bills, Send(c, bill)
      PROVE  Account(k, S, base, start, cap)'
  <2>1. bill \in Nat  BY LedgerAssumption
  <2>2. /\ pc[c] = "recorded" /\ pc' = [pc EXCEPT ![c] = "sending"]
        /\ spent' = [spent EXCEPT ![c] = @ + bill] /\ rows' = rows /\ billing' = billing
    BY <1>5 DEF Send
  <2>. QED  BY <2>1, <2>2, AccountCharged
<1>. QED  BY <1>2, <1>3, <1>4, <1>5 DEF Works

(* A step of a coroutine keeps the entries right.                          *)
LEMMA EntriesWork ==
  ASSUME Ranges, Entries, NEW k \in 0..Len(rows), Open(k), NEW c \in Calls, Works(c)
  PROVE  Entries'
<1>1. /\ rows \in Seq(Row) /\ spent \in [Calls -> Nat] /\ Bound[c] \in Nat
  BY LedgerAssumption DEF Ranges
<1>2. ASSUME rows' = rows, spent' = spent  PROVE Entries'
  BY <1>2 DEF Entries, HasRow
<1>3. ASSUME rows' = Append(rows, [id |-> c, accounted |-> Bound[c]]), ~HasRow(c), spent' = spent
      PROVE  Entries'
  <2>. DEFINE n == Len(rows)
  <2>1. /\ Len(rows') = n + 1 /\ n \in Nat
        /\ rows'[n + 1].id = c /\ rows'[n + 1].accounted = Bound[c]
        /\ \A i \in 1..n : rows'[i] = rows[i]
    BY <1>1, <1>3
  <2>2. 1..n + 1 = 1..n \cup {n + 1}  BY <2>1
  <2>3. \A i \in 1..n : rows'[i].id # c  BY <1>3, <2>1 DEF HasRow
  <2>. HIDE DEF n
  <2>4. \A i, j \in 1..n : rows[i].id = rows[j].id => i = j  BY DEF Entries, n
  <2>5. \A i, j \in 1..Len(rows') : rows'[i].id = rows'[j].id => i = j
    BY <2>1, <2>2, <2>3, <2>4
  <2>6. \A d \in Calls : ~HasRow(d)' => ~HasRow(d)  BY <2>1, <2>2 DEF HasRow, n
  <2>7. \A d \in Calls : ~HasRow(d)' => spent'[d] = 0  BY <1>3, <2>6 DEF Entries
  <2>8. \A i \in 1..n : rows[i].accounted \in {Bound[rows[i].id], spent[rows[i].id]}
    BY DEF Entries, n
  <2>9. \A i \in 1..Len(rows') :
          rows'[i].accounted \in {Bound[rows'[i].id], spent'[rows'[i].id]}
    BY <1>3, <2>1, <2>2, <2>8
  <2>. QED  BY <2>5, <2>7, <2>9 DEF Entries
<1>4. ASSUME NEW bill \in Bills, Send(c, bill)  PROVE Entries'
  <2>1. bill \in Nat /\ rows' = rows /\ spent' = [spent EXCEPT ![c] = @ + bill]
    BY <1>4, LedgerAssumption DEF Send
  <2>2. PICK i \in From(rows, k) : rows[i].id = c /\ rows[i].accounted = Bound[c]
    BY <1>4 DEF Send, Open, Engaged
  <2>3. i \in 1..Len(rows)  BY <2>2 DEF From
  <2>4. \A j \in 1..Len(rows) : rows[j].id = c => j = i  BY <2>2, <2>3 DEF Entries
  <2>5. HasRow(c)  BY <2>2, <2>3 DEF HasRow
  <2>6. \A d \in Calls : d # c => spent'[d] = spent[d]  BY <1>1, <2>1
  <2>7. \A d \in Calls : ~HasRow(d)' => spent'[d] = 0
    BY <2>1, <2>5, <2>6 DEF Entries, HasRow
  <2>8. \A j \in 1..Len(rows) : rows[j].accounted \in {Bound[rows[j].id], spent'[rows[j].id]}
    <3>. TAKE j \in 1..Len(rows)
    <3>1. CASE j = i  BY <2>2, <3>1
    <3>2. CASE j # i
      <4>1. rows[j].id \in Calls /\ rows[j].id # c  BY <1>1, <2>4, <3>2, Fields
      <4>2. spent'[rows[j].id] = spent[rows[j].id]  BY <2>6, <4>1
      <4>. QED  BY <4>2 DEF Entries
    <3>. QED  BY <3>1, <3>2
  <2>9. \A j, l \in 1..Len(rows) : rows[j].id = rows[l].id => j = l  BY DEF Entries
  <2>. QED  BY <2>1, <2>7, <2>8, <2>9 DEF Entries
<1>5. ASSUME Settle(c)  PROVE Entries'
  <2>. DEFINE cost == SettledCost(c)
  <2>1. rows' = [l \in 1..Len(rows) |->
           IF rows[l].id = c THEN [rows[l] EXCEPT !.accounted = cost] ELSE rows[l]]
    BY <1>5 DEF Settle
  <2>2. spent' = spent /\ cost \in {Bound[c], spent[c]}
    BY <1>5 DEF Settle, SettledCost
  <2>. HIDE DEF cost
  <2>3. Len(rows') = Len(rows)  BY <1>1, <2>1
  <2>4. \A l \in 1..Len(rows) : /\ rows'[l].id = rows[l].id
                                /\ rows[l].id = c => rows'[l].accounted = cost
                                /\ rows[l].id # c => rows'[l] = rows[l]
    <3>. TAKE l \in 1..Len(rows)
    <3>1. rows[l] \in Row  BY <1>1
    <3>2. rows'[l] = IF rows[l].id = c THEN [rows[l] EXCEPT !.accounted = cost] ELSE rows[l]
      BY <2>1
    <3>. QED  BY <3>1, <3>2 DEF Row
  <2>5. \A d \in Calls : HasRow(d)' = HasRow(d)  BY <2>3, <2>4 DEF HasRow
  <2>6. \A l \in 1..Len(rows) : rows'[l].accounted \in {Bound[rows'[l].id], spent[rows'[l].id]}
    BY <2>2, <2>4 DEF Entries
  <2>7. \A l, j \in 1..Len(rows) : rows'[l].id = rows'[j].id => l = j
    BY <2>4 DEF Entries
  <2>8. \A d \in Calls : ~HasRow(d)' => spent[d] = 0  BY <2>5 DEF Entries
  <2>. QED  BY <2>2, <2>3, <2>6, <2>7, <2>8 DEF Entries
<1>6. CASE Request(c)
  BY <1>2, <1>3, <1>6 DEF Request, Attempted
<1>7. CASE Record(c) \/ \E status \in {"received", "failed", "cancelled"}, usage \in BOOLEAN :
                          Respond(c, status, usage)
  BY <1>2, <1>7 DEF Record, Respond
<1>. QED  BY <1>4, <1>5, <1>6, <1>7 DEF Works

(* It leaves the bill and the ceiling, and the ledger within its maximum.  *)
LEMMA AmountsWork ==
  ASSUME Ranges, Amounts, NEW c \in Calls, Works(c)
  PROVE  Amounts'
<1>1. /\ up' = up /\ billing' = billing /\ ceiling' = ceiling /\ before' = before
  BY DEF Works, Request, Record, Settle, Send, Respond
<1>2. \/ rows' = rows
      \/ /\ Len(rows) < MaxCalls
         /\ rows' = Append(rows, [id |-> c, accounted |-> Bound[c]])
      \/ Settle(c)
  BY DEF Works, Request, Record, Send, Respond, Affordable
<1>3. rows \in Seq(Row) /\ Len(rows) \in Nat /\ MaxCalls \in Nat
  BY LedgerAssumption DEF Ranges
<1>4. Len(rows') <= MaxCalls /\ Len(rows) <= Len(rows') /\ Len(rows') \in Nat
  <2>1. CASE rows' = rows  BY <1>3, <2>1 DEF Amounts
  <2>2. CASE Len(rows) < MaxCalls /\ rows' = Append(rows, [id |-> c, accounted |-> Bound[c]])
    BY <1>3, <2>2
  <2>3. CASE Settle(c)
    <3>1. Len(rows') = Len(rows)  BY <1>3, <2>3 DEF Settle
    <3>. QED  BY <1>3, <3>1 DEF Amounts
  <2>. QED  BY <1>2, <2>1, <2>2, <2>3
<1>5. billing.through <= Len(rows')  BY <1>3, <1>4 DEF Amounts
<1>. QED  BY <1>1, <1>4, <1>5 DEF Amounts
-----------------------------------------------------------------------------
(* An account opens at the end of the ledger, while no call is under way.  *)
LEMMA BalanceOpens ==
  ASSUME NEW r \in Seq(Row), NEW f \in [Calls -> Nat], NEW k, k = Len(r),
         NEW S, S \subseteq Calls, NEW start \in Nat, NEW cap \in Nat, start <= cap,
         NEW base \in Nat, base = SumFunctionOnSet(f, S)
  PROVE  Balanced(r, f, start, k, S, base, start, cap)
<1>1. k \in Nat  OBVIOUS
<1>2. From(r, k) = {}  BY <1>1 DEF From
<1>3. /\ Cost(r, f, k) = 0 /\ Beyond(r, f, k) = 0
      /\ Accounted(r, k) = 0 /\ Settled(r, k) = 0
  BY <1>2, EmptySum DEF Cost, Beyond, Accounted, Settled
<1>4. ExcessIn(f, S) \in Nat  BY CallTotals
<1>. QED  BY <1>3, <1>4 DEF Balanced

(* Loading the ledger opens the account of the run.                        *)
LEMMA StartOpens ==
  ASSUME Ranges, Amounts, Entries, \A c \in Calls : pc[c] = "idle", Start
  PROVE  OfRun'
<1>. PICK k : k = Len(rows)  OBVIOUS
<1>. PICK start \in Nat : start = Committed  BY CommittedType
<1>. PICK cap \in Nat : cap = start + Increment  BY LedgerAssumption
<1>. PICK S : S = Calls \ before'  OBVIOUS
<1>1. /\ rows \in Seq(Row) /\ spent \in [Calls -> Nat] /\ k \in Nat
      /\ rows' = rows /\ spent' = spent /\ billing' = billing /\ pc' = pc
      /\ ceiling' = cap /\ S \subseteq Calls
  BY DEF Ranges, Start
<1>2. \A c \in S : ~HasRow(c)  BY DEF Start, HasRow
<1>3. SumFunctionOnSet(spent, S) = 0
  <2>1. \A c \in S : spent[c] = 0  BY <1>1, <1>2 DEF Entries
  <2>2. IsFiniteSet(S)  BY <1>1, CallTotals
  <2>. QED  BY <2>1, <2>2, SumZero
<1>4. Balanced(rows, spent, start, k, S, 0, start, cap)
  <2>1. start <= cap /\ 0 \in Nat  BY LedgerAssumption
  <2>. QED  BY <1>1, <1>3, <2>1, BalanceOpens
<1>5. Committed' = start  BY <1>1, CommittedIs, CommittedNext
<1>6. Holds(k, S)'
  <2>1. k \in 0..Len(rows') /\ From(rows', k) = {}  BY <1>1 DEF From
  <2>2. \A c \in Calls : ~HasRow(c)' => c \in S  BY <1>1 DEF Start, HasRow
  <2>3. Open(k)'  BY <1>1 DEF Open, Engaged
  <2>. QED  BY <2>1, <2>2, <2>3 DEF Holds
<1>7. Account(k, S, 0, start, cap)'
  BY <1>1, <1>4, <1>5, <1>6 DEF Account
<1>. QED  BY <1>1, <1>7 DEF OfRun

(* A confirmed bill opens the shared account anew.                         *)
LEMMA ReconcileOpens ==
  ASSUME Ranges, Amounts, Entries, \A c \in Calls : pc[c] = "idle", Reconcile
  PROVE  Shared' /\ Amounts'
<1>1. /\ rows \in Seq(Row) /\ spent \in [Calls -> Nat] /\ Limit \in Nat
      /\ rows' = rows /\ spent' = spent /\ pc' = pc /\ Calls \subseteq Calls
  BY LedgerAssumption DEF Ranges, Reconcile
<1>. PICK k \in Nat : k = Len(rows)  BY <1>1
<1>. PICK bill \in Nat : bill = SumFunctionOnSet(spent, Calls)  BY <1>1, CallTotals
<1>2. bill = SumFunction(spent)  BY <1>1 DEF SumFunction
<1>3. bill <= Limit /\ billing' = [through |-> k, prefix |-> rows, actual |-> bill]
  BY <1>2 DEF Reconcile
<1>4. k = billing'.through /\ bill = billing'.actual  BY <1>3
<1>5. Balanced(rows, spent, bill, k, Calls, bill, bill, Limit)
  BY <1>1, <1>3, BalanceOpens
<1>6. From(rows, k) = {}  BY <1>1 DEF From
<1>7. Committed' = bill
  <2>1. Accounted(rows, k) = 0  BY <1>6, EmptySum DEF Accounted
  <2>. QED  BY <1>1, <1>4, <2>1, CommittedNext
<1>8. Holds(k, Calls)'
  <2>1. k \in 0..Len(rows') /\ From(rows', k) = {}  BY <1>1, <1>6
  <2>2. Open(k)'  BY <1>1 DEF Open, Engaged
  <2>. QED  BY <2>1, <2>2 DEF Holds
<1>9. Account(k, Calls, bill, bill, Limit)'
  BY <1>1, <1>5, <1>7, <1>8 DEF Account
<1>10. Shared'  BY <1>4, <1>9 DEF Shared
<1>11. Amounts'
  <2>1. billing' \in [through: Nat, prefix: Seq(Row), actual: Nat]  BY <1>1, <1>3
  <2>2. billing'.through <= Len(rows')  BY <1>1, <1>4
  <2>. QED  BY <1>1, <2>1, <2>2 DEF Amounts, Reconcile
<1>. QED  BY <1>10, <1>11
-----------------------------------------------------------------------------
(* The books are kept by every step.                                       *)
LEMMA BooksStep ==
  ASSUME Ranges, Books, Next
  PROVE  Books'
<1>. USE DEF Books
<1>1. CASE Start
  <2>1. /\ ~up /\ up' = TRUE /\ rows' = rows /\ spent' = spent /\ billing' = billing /\ pc' = pc
        /\ ceiling' = Committed + Increment /\ before' = {rows[i].id : i \in 1..Len(rows)}
    BY <1>1 DEF Start
  <2>2. OfRun'  BY <1>1, <2>1, StartOpens
  <2>3. Shared'
    <3>. PICK k, bill \in Nat : /\ k = billing.through /\ bill = billing.actual
                                /\ Account(k, Calls, bill, bill, Limit)
      BY DEF Shared
    <3>1. Account(k, Calls, bill, bill, Limit)'  BY <2>1, AccountKept
    <3>. QED  BY <2>1, <3>1 DEF Shared
  <2>4. Entries'  BY <2>1 DEF Entries, HasRow
  <2>5. Amounts'
    <3>1. before' \subseteq Calls  BY <2>1, Fields DEF Ranges
    <3>2. ceiling' \in Nat  BY <2>1, CommittedType, LedgerAssumption
    <3>. QED  BY <2>1, <3>1, <3>2 DEF Amounts
  <2>. QED  BY <2>1, <2>2, <2>3, <2>4, <2>5
<1>2. CASE Exit
  <2>1. /\ up' = FALSE /\ \A c \in Calls : pc'[c] = "idle"
        /\ rows' = rows /\ spent' = spent /\ billing' = billing
        /\ ceiling' = ceiling /\ before' = before
    BY <1>2 DEF Exit
  <2>2. Shared'
    <3>. PICK k, bill \in Nat : /\ k = billing.through /\ bill = billing.actual
                                /\ Account(k, Calls, bill, bill, Limit)
      BY DEF Shared
    <3>1. Account(k, Calls, bill, bill, Limit)'  BY <2>1, AccountKept DEF Engaged
    <3>. QED  BY <2>1, <3>1 DEF Shared
  <2>3. Entries'  BY <2>1 DEF Entries, HasRow
  <2>4. Amounts'  BY <2>1 DEF Amounts
  <2>. QED  BY <2>1, <2>2, <2>3, <2>4
<1>3. CASE Reconcile
  <2>1. ~up /\ up' = up /\ rows' = rows /\ spent' = spent /\ pc' = pc
    BY <1>3 DEF Reconcile
  <2>2. Shared' /\ Amounts'  BY <1>3, <2>1, ReconcileOpens
  <2>3. Entries'  BY <2>1 DEF Entries, HasRow
  <2>. QED  BY <2>1, <2>2, <2>3
<1>4. ASSUME NEW c \in Calls, Works(c)
      PROVE  Books'
  <2>1. /\ up /\ up' = up /\ billing' = billing /\ ceiling' = ceiling /\ before' = before
    BY <1>4 DEF Works, Request, Record, Settle, Send, Respond, Alone
  <2>. PICK t, bill \in Nat : /\ t = billing.through /\ bill = billing.actual
                              /\ Account(t, Calls, bill, bill, Limit)
    BY DEF Shared
  <2>2. Open(billing.through) /\ Open(t) /\ t \in 0..Len(rows)
    BY DEF Account, Holds
  <2>3. Shared'
    <3>1. Limit \in Nat /\ (Affordable(c) => Committed + Bound[c] <= Limit)
      BY LedgerAssumption DEF Affordable
    <3>2. Account(t, Calls, bill, bill, Limit)'  BY <1>4, <2>2, <3>1, AccountWorks
    <3>. QED  BY <2>1, <3>2 DEF Shared
  <2>4. OfRun'
    <3>. PICK k, start, cap \in Nat, S \in SUBSET Calls :
           /\ S = Calls \ before /\ cap = ceiling /\ cap = start + Increment
           /\ Account(k, S, 0, start, cap)
      BY <2>1 DEF OfRun
    <3>1. 0 \in Nat /\ (Affordable(c) => Committed + Bound[c] <= cap)
      BY DEF Affordable
    <3>2. Account(k, S, 0, start, cap)'  BY <1>4, <2>2, <3>1, AccountWorks
    <3>. QED  BY <2>1, <3>2 DEF OfRun
  <2>5. Entries'  BY <1>4, <2>2, EntriesWork
  <2>6. Amounts'  BY <1>4, AmountsWork
  <2>. QED  BY <2>1, <2>3, <2>4, <2>5, <2>6
<1>. QED  BY <1>1, <1>2, <1>3, <1>4 DEF Next, Works

(* No call has a row or a charge yet.                                      *)
LEMMA BooksInit ==
  ASSUME Init
  PROVE  Books
<1>1. /\ rows = <<>> /\ billing = Unconfirmed /\ up = FALSE
      /\ pc = [c \in Calls |-> "idle"] /\ spent = [c \in Calls |-> 0]
      /\ ceiling = 0 /\ before = {}
  BY DEF Init
<1>2. Entries  BY <1>1 DEF Entries
<1>3. Amounts
  <2>1. billing \in [through: Nat, prefix: Seq(Row), actual: Nat]
    BY <1>1 DEF Unconfirmed
  <2>2. billing.through = 0 /\ Len(rows) = 0  BY <1>1 DEF Unconfirmed
  <2>3. up \in BOOLEAN /\ ceiling \in Nat /\ before \subseteq Calls  BY <1>1
  <2>4. Len(rows) <= MaxCalls /\ billing.through <= Len(rows)
    BY <2>2, LedgerAssumption
  <2>. QED  BY <2>1, <2>3, <2>4 DEF Amounts
<1>4. Shared
  <2>1. rows \in Seq(Row) /\ spent \in [Calls -> Nat] /\ Calls \subseteq Calls
    BY <1>1
  <2>. PICK k \in Nat : k = 0  OBVIOUS
  <2>2. k = Len(rows) /\ k = billing.through /\ k = billing.actual
    BY <1>1 DEF Unconfirmed
  <2>3. SumFunctionOnSet(spent, Calls) = 0
    BY <1>1, SumZero, LedgerAssumption
  <2>4. Balanced(rows, spent, k, k, Calls, k, k, Limit)
    <3>1. k = SumFunctionOnSet(spent, Calls) /\ k <= Limit /\ Limit \in Nat
      BY <2>3, LedgerAssumption
    <3>. QED  BY <2>1, <2>2, <3>1, BalanceOpens
  <2>5. From(rows, k) = {}  BY <2>2 DEF From
  <2>6. Committed = k
    <3>1. Accounted(rows, k) = 0  BY <2>5, EmptySum DEF Accounted
    <3>2. Committed = billing.actual + Accounted(rows, k)  BY <2>2, CommittedIs
    <3>. QED  BY ONLY <2>2, <3>1, <3>2, k \in Nat
  <2>7. Holds(k, Calls)
    <3>1. k \in 0..Len(rows)  BY <2>2
    <3>2. Open(k)  BY <1>1 DEF Open, Engaged
    <3>. QED  BY <2>5, <3>1, <3>2 DEF Holds
  <2>. QED  BY <2>2, <2>4, <2>6, <2>7 DEF Shared, Account
<1>. QED  BY <1>1, <1>2, <1>3, <1>4 DEF Books

(* The inductive invariant of the money: a call has one row and no charge  *)
(* without one; a call under way has its reservation in the books; and the *)
(* shared account and the run's account balance.                           *)
THEOREM BooksBalance == Spec => []Books
<1>1. Init => Books  BY BooksInit
<1>2. Books /\ Order /\ [Next]_vars => Books'
  <2>. HAVE Books /\ Order /\ [Next]_vars
  <2>1. CASE Next  BY <2>1, BooksStep DEF Order
  <2>2. CASE UNCHANGED vars
    <3>1. /\ up' = up /\ rows' = rows /\ billing' = billing /\ pc' = pc /\ ceiling' = ceiling
          /\ before' = before /\ spent' = spent
      BY <2>2 DEF vars
    <3>2. Amounts' /\ Entries'  BY <3>1 DEF Books, Amounts, Entries, HasRow
    <3>3. Shared'
      <4>. PICK k, bill \in Nat : /\ k = billing.through /\ bill = billing.actual
                                  /\ Account(k, Calls, bill, bill, Limit)
        BY DEF Books, Shared
      <4>1. Account(k, Calls, bill, bill, Limit)'  BY <3>1, AccountKept
      <4>. QED  BY <3>1, <4>1 DEF Shared
    <3>4. up' => OfRun'
      <4>. HAVE up'
      <4>. PICK k, start, cap \in Nat, S \in SUBSET Calls :
             /\ S = Calls \ before /\ cap = ceiling /\ cap = start + Increment
             /\ Account(k, S, 0, start, cap)
        BY <3>1 DEF Books, OfRun
      <4>1. Account(k, S, 0, start, cap)'  BY <3>1, AccountKept
      <4>. QED  BY <3>1, <4>1 DEF OfRun
    <3>. QED  BY <3>1, <3>2, <3>3, <3>4 DEF Books
  <2>. QED  BY <2>1, <2>2
<1>. QED  BY <1>1, <1>2, OrderInvariant, PTL DEF Spec
-----------------------------------------------------------------------------
(* What a balanced account promises: with the excess of the charges, what  *)
(* is committed since it opened covers them, and so does its cap.          *)
LEMMA BalanceCovers ==
  ASSUME NEW r \in Seq(Row), NEW f \in [Calls -> Nat], NEW k \in 0..Len(r),
         \A i \in 1..Len(r) : r[i].accounted \in {Bound[r[i].id], f[r[i].id]},
         NEW S, S \subseteq Calls, NEW base \in Nat, NEW start \in Nat, NEW cap \in Nat,
         NEW com \in Nat, Balanced(r, f, com, k, S, base, start, cap),
         NEW total, total = SumFunctionOnSet(f, S), NEW excess, excess = ExcessIn(f, S)
  PROVE  /\ total \in Nat /\ excess \in Nat
         /\ com + base + excess >= total + start
         /\ total + start <= base + cap + excess
<1>1. k \in Nat  OBVIOUS
<1>2. total \in Nat /\ excess \in Nat  BY CallTotals
<1>. PICK a \in Nat, b \in Nat, x \in Nat, y \in Nat :
       a = Accounted(r, k) /\ b = Settled(r, k) /\ x = Cost(r, f, k) /\ y = Beyond(r, f, k)
  BY <1>1, Totals
<1>3. x + b <= a + y  BY <1>1, RowsCover
<1>4. total = base + x /\ excess >= y /\ com = start + a /\ com <= cap + b
  BY DEF Balanced
<1>. QED
  BY ONLY <1>2, <1>3, <1>4, com \in Nat, base \in Nat, start \in Nat, cap \in Nat,
          a \in Nat, b \in Nat, x \in Nat, y \in Nat

(* The ledger covers the provider's bill at every instant, and the bill of *)
(* all runs together stays within the limit, but for what requests that    *)
(* broke their reservation cost beyond it: what Budget.accounted, reserve, *)
(* settle and reconcile are for, whatever is in flight, lost or killed.    *)
THEOREM LedgerCoversBill == Spec => []LedgerCovers
<1>1. ASSUME Ranges, Books  PROVE LedgerCovers
  <2>. PICK k, bill \in Nat : /\ k = billing.through /\ bill = billing.actual
                              /\ Account(k, Calls, bill, bill, Limit)
    BY <1>1 DEF Books, Shared
  <2>. PICK total, excess :
         total = SumFunctionOnSet(spent, Calls) /\ excess = ExcessIn(spent, Calls)
    OBVIOUS
  <2>1. rows \in Seq(Row) /\ spent \in [Calls -> Nat] /\ Limit \in Nat /\ Calls \subseteq Calls
    BY <1>1, LedgerAssumption DEF Ranges
  <2>2. \A i \in 1..Len(rows) : rows[i].accounted \in {Bound[rows[i].id], spent[rows[i].id]}
    BY <1>1 DEF Books, Entries
  <2>3. Committed \in Nat  BY <1>1, CommittedType DEF Books
  <2>4. k \in 0..Len(rows) /\ Balanced(rows, spent, Committed, k, Calls, bill, bill, Limit)
    BY DEF Account, Holds
  <2>5. /\ total \in Nat /\ excess \in Nat
        /\ Committed + bill + excess >= total + bill
        /\ total + bill <= bill + Limit + excess
    BY <2>1, <2>2, <2>3, <2>4, BalanceCovers
  <2>6. Committed + excess >= total /\ total <= Limit + excess
    BY ONLY <2>1, <2>3, <2>5, bill \in Nat
  <2>7. SumFunction(spent) = total  BY <2>1 DEF SumFunction
  <2>. QED  BY <2>6, <2>7, ExcessIs DEF LedgerCovers
<1>2. Order /\ Books => LedgerCovers  BY <1>1 DEF Order
<1>. QED  BY <1>2, OrderInvariant, BooksBalance, PTL

(* IncrementBudget: no run adds more to the provider's bill than its own   *)
(* increment, but for requests that broke their reservation.               *)
THEOREM IncrementIsKept == Spec => []IncrementKept
<1>1. ASSUME Ranges, Books, up  PROVE IncrementKept
  <2>. PICK k, start, cap \in Nat, S \in SUBSET Calls :
         /\ S = Calls \ before /\ cap = ceiling /\ cap = start + Increment
         /\ Account(k, S, 0, start, cap)
    BY <1>1 DEF Books, OfRun
  <2>. PICK total, excess :
         total = SumFunctionOnSet(spent, S) /\ excess = ExcessIn(spent, S)
    OBVIOUS
  <2>1. rows \in Seq(Row) /\ spent \in [Calls -> Nat] /\ Increment \in Nat
        /\ S \subseteq Calls /\ 0 \in Nat
    BY <1>1, LedgerAssumption DEF Ranges
  <2>2. \A i \in 1..Len(rows) : rows[i].accounted \in {Bound[rows[i].id], spent[rows[i].id]}
    BY <1>1 DEF Books, Entries
  <2>3. Committed \in Nat  BY <1>1, CommittedType DEF Books
  <2>4. k \in 0..Len(rows) /\ Balanced(rows, spent, Committed, k, S, 0, start, cap)
    BY DEF Account, Holds
  <2>5. /\ total \in Nat /\ excess \in Nat /\ total + start <= 0 + cap + excess
    BY <2>1, <2>2, <2>3, <2>4, BalanceCovers
  <2>6. total <= Increment + excess
    BY ONLY <2>1, <2>5, start \in Nat, cap \in Nat, cap = start + Increment
  <2>7. SumFunction([c \in S |-> spent[c]]) = total
    <3>. DEFINE g == [c \in S |-> spent[c]]
    <3>1. SumFunction(g) = SumFunctionOnSet(g, S)  BY DEF SumFunction
    <3>2. SameOn(g, spent, S) /\ IsFiniteSet(S)  BY <2>1, CallTotals DEF SameOn
    <3>. HIDE DEF g
    <3>3. SumFunctionOnSet(g, S) = SumFunctionOnSet(spent, S)  BY <3>2, SameSum
    <3>. QED  BY <3>1, <3>3 DEF g
  <2>. QED  BY <2>6, <2>7, ExcessIs DEF IncrementKept
<1>2. Order /\ Books => IncrementKept  BY <1>1 DEF Order, IncrementKept
<1>. QED  BY <1>2, OrderInvariant, BooksBalance, PTL

(* Every variable keeps its range and the ledger its maximum of rows.      *)
THEOREM TypeCorrect == Spec => []TypeOK
<1>1. Order /\ Books => TypeOK
  BY DEF Order, Books, Amounts, Ranges, Row, TypeOK
<1>. QED  BY <1>1, OrderInvariant, BooksBalance, PTL
=============================================================================
