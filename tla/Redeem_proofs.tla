--------------------------- MODULE Redeem_proofs ---------------------------
(***************************************************************************)
(* Proofs about the redeem codes, for any codes, types, groups and         *)
(* accounts, and any bounds on how many are made and used.                 *)
(*                                                                         *)
(* The inductive invariant RInv has four parts. RTyped: the maps are maps, *)
(* and the count of unused codes is the size of their map. Payable: a code *)
(* that can be used has been made more often than given. Kept: a use that  *)
(* was paid is in the map of its group. Saved: unless a write failed or a  *)
(* load ended early, the table is Orderly and memory Has what is in it.    *)
(* Orderly is what a load needs: AddCode passes over a row whose code an   *)
(* earlier one has put in a map, and of no row is that so. Has speaks of   *)
(* the first k rows, so the same predicate is carried through a load, one  *)
(* row at a time, and through AddCodeN and Use, for the whole table.       *)
(***************************************************************************)
EXTENDS MCRedeem, FiniteSetTheorems, WellFoundedInduction, TLAPS

\* The rows of redeem_code, and what type Redeem holds.
RowSet == [code : Codes, type : Types, account : Accounts \cup {None}]

Memories ==
    [configs : SUBSET Types, inited : BOOLEAN,
     unused : [Codes -> Types \cup {None}], used : [Codes -> Accounts \cup {None}],
     accounts : [Redeems!Groups -> SUBSET Accounts],
     nUsed : [Types -> Nat], nUnused : [Types -> Nat]]

\* The codes of type t that can be used, of the memory m.
CodesOf(m, t) == {c \in Codes : m.unused[c] = t}

\* The map of unused codes and its count by type agree.
Tallied(m) ==
    /\ \A c \in Codes : m.unused[c] \in m.configs \cup {None}
    /\ \A t \in Types : m.nUnused[t] = Cardinality(CodesOf(m, t))

\* Types, and the counts of the map of unused codes.
RTyped ==
    /\ dbTypes \subseteq Types
    /\ rows \in Seq(RowSet)
    /\ r \in Memories /\ Tallied(r)
    /\ made \in [Redeems!Goods -> Nat] /\ grants \in [Redeems!Goods -> Nat]
    /\ paid \in [Redeems!Groups \X Accounts -> Nat]
    /\ unsaved \in BOOLEAN /\ lost \in BOOLEAN /\ cut \in BOOLEAN

\* A code of a limited type that can be used, in memory or by its row, has been made
\* more often than given.
Payable ==
    ~lost =>
        /\ \A x \in Codes \X Redeems!Limited : grants[x] <= made[x]
        /\ \A c \in Codes : r.unused[c] \in Redeems!Limited =>
               grants[<<c, r.unused[c]>>] < made[<<c, r.unused[c]>>]
        /\ ~unsaved => \A i \in 1 .. Len(rows) :
               rows[i].account = None /\ rows[i].type \in Redeems!Limited =>
                   grants[<<rows[i].code, rows[i].type>>] < made[<<rows[i].code, rows[i].type>>]

\* A row of a use that a load remembers, by the code and in its group.
Marks(w) == w.account # None /\ Redeems!Group(w.type) # Redeems!Unchecked
Unlimited(w) == w.account # None /\ Redeems!Group(w.type) < 0

\* What keeps a load from passing over a row: an earlier one of the same code.
Blocks(v, w) ==
    /\ v.code = w.code
    /\ v.account = None \/ (Marks(v) /\ Redeems!Group(w.type) >= 0)

\* No row but those of unlimited uses is passed over, and these have a code.
Orderly(w) ==
    /\ \A i, j \in 1 .. Len(w) : i < j /\ ~Unlimited(w[j]) => ~Blocks(w[i], w[j])
    /\ \A i \in 1 .. Len(w) : Unlimited(w[i]) =>
           \E j \in 1 .. Len(w) : j < i /\ w[j] = Redeems!Row(w[i].code, w[i].type, None)

\* The rows of uses of a type, among the first k of w.
UsesOf(w, k, t) == {i \in 1 .. k : w[i].type = t /\ w[i].account # None}

\* The maps of m and the first k rows of w: the unused codes of the rows are in the
\* map, those of the map are in the rows, the uses in the rows are in the maps (one of
\* a code that is never used up leaves the code in the map), and they are counted.
UnusedRead(m, w, k) ==
    \A i \in 1 .. k : w[i].account = None => m.unused[w[i].code] = w[i].type

UnusedFrom(m, w, k) ==
    \A c \in Codes : m.unused[c] # None =>
        \E i \in 1 .. k : w[i] = Redeems!Row(c, m.unused[c], None)

UsesRead(m, w, k) ==
    \A i \in 1 .. k : Marks(w[i]) =>
        /\ w[i].account \in m.accounts[Redeems!Group(w[i].type)]
        /\ Unlimited(w[i]) => m.unused[w[i].code] = w[i].type
        /\ ~Unlimited(w[i]) => m.used[w[i].code] # None

UsesCounted(m, w, k) == \A t \in Types : m.nUsed[t] = Cardinality(UsesOf(w, k, t))

Has(m, w, k) ==
    UnusedRead(m, w, k) /\ UnusedFrom(m, w, k) /\ UsesRead(m, w, k) /\ UsesCounted(m, w, k)

\* As long as the process did not stop with something unsaved, and no load was cut,
\* an account that was paid for a group is in the map of accounts ...
Kept ==
    ~lost /\ ~cut =>
        /\ r.inited
        /\ \A g \in Redeems!Groups \ {Redeems!Unchecked}, a \in Accounts :
               paid[<<g, a>>] <= 1 /\ (paid[<<g, a>>] # 0 => a \in r.accounts[g])

\* ... and as long as all is saved too, the tables say what the memory does: a load
\* would find it again.
TypesSaved == r.configs \subseteq dbTypes /\ \A i \in 1 .. Len(rows) : rows[i].type \in r.configs

PaidSaved ==
    \A g \in Redeems!Groups \ {Redeems!Unchecked}, a \in Accounts :
        paid[<<g, a>>] # 0 =>
            \E i \in 1 .. Len(rows) : rows[i].account = a /\ Redeems!Group(rows[i].type) = g

MadeSaved ==
    \A c \in Codes, t \in Types : Redeems!Group(t) < 0 /\ made[<<c, t>>] # 0 =>
        \E i \in 1 .. Len(rows) : rows[i] = Redeems!Row(c, t, None)

Saved ==
    ~lost /\ ~cut /\ ~unsaved =>
        TypesSaved /\ Orderly(rows) /\ Has(r, rows, Len(rows)) /\ PaidSaved /\ MadeSaved

\* The invariant of the redeem codes.
RInv == RTyped /\ Payable /\ Kept /\ Saved
-----------------------------------------------------------------------------
(* What the operations on the maps do.                                     *)

(* Groups are numbers; those of unlimited types are negative.              *)
LEMMA GroupIs ==
    /\ \A t \in Types : Redeems!Group(t) \in Int /\ Redeems!Group(t) \in Redeems!Groups
    /\ \A t : t \in Redeems!Limited <=> t \in Types /\ Redeems!Group(t) >= 0
    /\ Redeems!Unchecked \in Nat
<1>1. \A t \in Types : t \in Nat /\ GroupOf[t] \in Nat
  BY Zenon, RedeemAssumption
<1>2. \A t \in Types : Redeems!Group(t) \in Int
  BY <1>1 DEF Redeems!Group
<1>3. Redeems!Unchecked \in Nat
  BY DEF Redeems!Unchecked
<1> QED
  BY Zenon, <1>2, <1>3 DEF Redeems!Groups, Redeems!Limited

(* The fields of a row.                                                    *)
LEMMA RowIs ==
    /\ \A v \in RowSet :
           /\ v.code \in Codes /\ v.type \in Types /\ v.account \in Accounts \cup {None}
           /\ v = Redeems!Row(v.code, v.type, v.account)
    /\ \A v, c, t, a : v = Redeems!Row(c, t, a) => v.code = c /\ v.type = t /\ v.account = a
  BY DEF RowSet, Redeems!Row

(* Redeem counts with the same operator.                                   *)
LEMMA SameCount == \A S : Redeems!Cardinality(S) = Cardinality(S)
  BY Zenon DEF Redeems!Cardinality, Cardinality

\* The memory u is m, with the new codes cs of type t that can be used.
MoreUnused(u, m, cs, t) ==
    /\ u \in Memories /\ Tallied(u)
    /\ \A c \in cs : m.unused[c] = None
    /\ \A c \in Codes : u.unused[c] = IF c \in cs THEN t ELSE m.unused[c]
    /\ u.configs = m.configs /\ u.inited = m.inited /\ u.used = m.used
    /\ u.accounts = m.accounts /\ u.nUsed = m.nUsed

(* Codes of one type are added to the map of unused codes.                 *)
LEMMA UnusedIs ==
    ASSUME NEW m \in Memories, Tallied(m), NEW cs \in SUBSET Codes, NEW t \in m.configs,
           \A c \in cs : m.unused[c] = None, NEW u, u = Redeems!Unused(m, cs, t)
    PROVE  MoreUnused(u, m, cs, t)
<1>1. /\ IsFiniteSet(Codes) /\ IsFiniteSet(cs) /\ Cardinality(cs) \in Nat
      /\ t \in Types /\ t # None
  <2>1. IsFiniteSet(Codes) /\ IsFiniteSet(cs)
    BY Zenon, RedeemAssumption, FS_Subset
  <2>2. t \in Types
    BY DEF Memories
  <2> QED
    BY Zenon, <2>1, <2>2, FS_CardinalityType, RedeemAssumption
<1>2. /\ m.unused \in [Codes -> Types \cup {None}] /\ m.nUnused \in [Types -> Nat]
      /\ m = [configs |-> m.configs, inited |-> m.inited, unused |-> m.unused,
              used |-> m.used, accounts |-> m.accounts, nUsed |-> m.nUsed,
              nUnused |-> m.nUnused]
  BY DEF Memories
<1> DEFINE un == [c \in Codes |-> IF c \in cs THEN t ELSE m.unused[c]]
           nu == [m.nUnused EXCEPT ![t] = m.nUnused[t] + Cardinality(cs)]
<1>3. u = [configs |-> m.configs, inited |-> m.inited, unused |-> un,
           used |-> m.used, accounts |-> m.accounts, nUsed |-> m.nUsed,
           nUnused |-> nu]
  BY <1>2, SameCount DEF Redeems!Unused
<1>4. un \in [Codes -> Types \cup {None}] /\ nu \in [Types -> Nat]
  BY <1>1, <1>2
<1>5. u \in Memories
  <2> HIDE DEF un, nu
  <2> QED
    BY <1>3, <1>4 DEF Memories
<1>6. /\ u.configs = m.configs /\ u.inited = m.inited /\ u.used = m.used
      /\ u.accounts = m.accounts /\ u.nUsed = m.nUsed /\ u.unused = un /\ u.nUnused = nu
  <2> HIDE DEF un, nu
  <2> QED
    BY <1>3
<1>7. \A c \in Codes : u.unused[c] = IF c \in cs THEN t ELSE m.unused[c]
  BY Zenon, <1>6
<1>8. \A s \in Types : u.nUnused[s] = Cardinality(CodesOf(u, s))
  <2> TAKE s \in Types
  <2>0. m.nUnused[s] = Cardinality(CodesOf(m, s))
    BY Zenon DEF Tallied
  <2>1. CASE s = t
    <3>1. CodesOf(u, s) = CodesOf(m, s) \cup cs /\ CodesOf(m, s) \cap cs = {}
      BY <1>1, <1>7, <2>1 DEF CodesOf
    <3>2. IsFiniteSet(CodesOf(m, s))
      BY Zenon, <1>1, FS_Subset DEF CodesOf
    <3>3. Cardinality(CodesOf(u, s)) = Cardinality(CodesOf(m, s)) + Cardinality(cs) - Cardinality({})
      BY Zenon, <1>1, <3>1, <3>2, FS_Union
    <3>4. Cardinality({}) = 0
      BY Zenon, FS_EmptySet
    <3>5. u.nUnused[s] = m.nUnused[s] + Cardinality(cs)
      BY Zenon, <1>1, <1>2, <1>6, <2>1
    <3> QED
      BY <1>1, <1>2, <2>0, <3>3, <3>4, <3>5
  <2>2. CASE s # t
    <3>1. CodesOf(u, s) = CodesOf(m, s)
      <4>1. s # None
        BY Zenon, RedeemAssumption
      <4> QED
        BY <1>7, <2>2, <4>1 DEF CodesOf
    <3>2. u.nUnused[s] = m.nUnused[s]
      BY Zenon, <1>2, <1>6, <2>2
    <3> QED
      BY Zenon, <2>0, <3>1, <3>2
  <2> QED
    BY Zenon, <2>1, <2>2
<1>9. \A c \in Codes : u.unused[c] \in u.configs \cup {None}
  BY Zenon, <1>6, <1>7 DEF Tallied
<1> QED
  BY Zenon, <1>5, <1>6, <1>7, <1>8, <1>9 DEF Tallied, MoreUnused
\* The memory u is m, with one more use, that of row w.
MoreUsed(u, m, w) ==
    /\ u \in Memories /\ Tallied(u)
    /\ u.unused = m.unused /\ u.configs = m.configs /\ u.inited = m.inited
    /\ \A c \in Codes :
           u.used[c] = IF Marks(w) /\ c = w.code THEN w.account ELSE m.used[c]
    /\ \A g \in Redeems!Groups :
           u.accounts[g] = IF Marks(w) /\ g = Redeems!Group(w.type)
                           THEN m.accounts[g] \cup {w.account} ELSE m.accounts[g]
    /\ \A t \in Types : u.nUsed[t] = IF t = w.type THEN m.nUsed[t] + 1 ELSE m.nUsed[t]


(* AddCode of a row that was used, if it is not passed over.               *)
LEMMA UsedIs ==
    ASSUME NEW m \in Memories, Tallied(m), NEW w \in RowSet, w.account # None,
           NEW u, u = Redeems!Counted(Redeems!RememberUse(m, w), w.type)
    PROVE  MoreUsed(u, m, w)
<1>1. w.code \in Codes /\ w.type \in Types /\ w.account \in Accounts
  BY DEF RowSet
<1>2. /\ m.used \in [Codes -> Accounts \cup {None}] /\ m.nUsed \in [Types -> Nat]
      /\ m.accounts \in [Redeems!Groups -> SUBSET Accounts]
      /\ m = [configs |-> m.configs, inited |-> m.inited, unused |-> m.unused,
              used |-> m.used, accounts |-> m.accounts, nUsed |-> m.nUsed,
              nUnused |-> m.nUnused]
  BY DEF Memories
<1>3. Redeems!Group(w.type) \in Redeems!Groups
  BY Zenon, <1>1, GroupIs
<1> DEFINE g0 == Redeems!Group(w.type)
           us == IF Marks(w) THEN [m.used EXCEPT ![w.code] = w.account] ELSE m.used
           ac == IF Marks(w) THEN [m.accounts EXCEPT ![g0] = m.accounts[g0] \cup {w.account}]
                             ELSE m.accounts
           nu == [m.nUsed EXCEPT ![w.type] = m.nUsed[w.type] + 1]
<1>4. u = [configs |-> m.configs, inited |-> m.inited, unused |-> m.unused,
           used |-> us, accounts |-> ac, nUsed |-> nu, nUnused |-> m.nUnused]
  <2>1. CASE Marks(w)
    BY <1>2, <2>1 DEF Redeems!Counted, Redeems!RememberUse, Marks
  <2>2. CASE ~Marks(w)
    BY <1>2, <2>2 DEF Redeems!Counted, Redeems!RememberUse, Marks
  <2> QED
    BY Zenon, <2>1, <2>2
<1>5. /\ us \in [Codes -> Accounts \cup {None}] /\ nu \in [Types -> Nat]
      /\ ac \in [Redeems!Groups -> SUBSET Accounts]
  BY <1>1, <1>2, <1>3
<1>6. /\ \A c \in Codes : us[c] = IF Marks(w) /\ c = w.code THEN w.account ELSE m.used[c]
      /\ \A g \in Redeems!Groups :
             ac[g] = IF Marks(w) /\ g = g0 THEN m.accounts[g] \cup {w.account} ELSE m.accounts[g]
      /\ \A t \in Types : nu[t] = IF t = w.type THEN m.nUsed[t] + 1 ELSE m.nUsed[t]
  BY Zenon, <1>1, <1>2, <1>3
<1> HIDE DEF us, ac, nu
<1>7. u \in Memories
  BY <1>4, <1>5 DEF Memories
<1>8. /\ u.configs = m.configs /\ u.inited = m.inited /\ u.used = us /\ u.unused = m.unused
      /\ u.accounts = ac /\ u.nUsed = nu /\ u.nUnused = m.nUnused
  BY <1>4
<1>9. Tallied(u)
  BY Zenon, <1>8 DEF Tallied, CodesOf
<1> QED
  BY Zenon, <1>6, <1>7, <1>8, <1>9 DEF MoreUsed

(* A row that AddCode passes over.                                         *)
Passed(m, w) ==
    \/ w.type \notin m.configs
    \/ ~Unlimited(w) /\ Redeems!Known(m, w.code, w.type)

(* AddCode.                                                                *)
LEMMA AddCodeIs ==
    ASSUME NEW m, NEW w
    PROVE  /\ Passed(m, w) => Redeems!AddCode(m, w) = m
           /\ ~Passed(m, w) /\ w.account = None =>
                Redeems!AddCode(m, w) = Redeems!Unused(m, {w.code}, w.type)
           /\ ~Passed(m, w) /\ w.account # None =>
                Redeems!AddCode(m, w) = Redeems!Counted(Redeems!RememberUse(m, w), w.type)
  BY Zenon DEF Redeems!AddCode, Passed, Unlimited

(* A code that AddCode does not pass over, and that was not used, is new.  *)
LEMMA NewIsNew ==
    ASSUME NEW m, NEW w, ~Passed(m, w), w.account = None
    PROVE  w.type \in m.configs /\ m.unused[w.code] = None
  BY Zenon DEF Passed, Unlimited, Redeems!Known

\* The fields of a memory.
AreMaps(cf, b, un, us, ac, nu, nn) ==
    /\ cf \in SUBSET Types /\ b \in BOOLEAN
    /\ un \in [Codes -> Types \cup {None}] /\ us \in [Codes -> Accounts \cup {None}]
    /\ ac \in [Redeems!Groups -> SUBSET Accounts]
    /\ nu \in [Types -> Nat] /\ nn \in [Types -> Nat]

(* A memory, by its fields.                                                *)
LEMMA MemoryIs ==
    ASSUME NEW m, NEW cf, NEW b, NEW un, NEW us, NEW ac, NEW nu, NEW nn,
           AreMaps(cf, b, un, us, ac, nu, nn),
           m = [configs |-> cf, inited |-> b, unused |-> un, used |-> us,
                accounts |-> ac, nUsed |-> nu, nUnused |-> nn]
    PROVE  m \in Memories
  BY DEF Memories, AreMaps

\* The memory m has these types and no codes.
NoCodes(m, types) ==
    /\ m \in Memories /\ Tallied(m) /\ m.configs = types
    /\ \A c \in Codes : m.unused[c] = None /\ m.used[c] = None
    /\ \A t \in Types : m.nUsed[t] = 0

(* The first step of a load.                                               *)
LEMMA EmptyIs ==
    ASSUME NEW types \in SUBSET Types, NEW m, m = [Redeems!Empty EXCEPT !.configs = types]
    PROVE  NoCodes(m, types)
<1> DEFINE none == [c \in Codes |-> None]
           noOne == [g \in Redeems!Groups |-> {}]
           zero == [t \in Types |-> 0]
           no == FALSE
<1>1. /\ none \in [Codes -> Types \cup {None}] /\ none \in [Codes -> Accounts \cup {None}]
      /\ noOne \in [Redeems!Groups -> SUBSET Accounts] /\ zero \in [Types -> Nat]
      /\ no \in BOOLEAN
      /\ (\A c \in Codes : none[c] = None) /\ \A t \in Types : zero[t] = 0
  OBVIOUS
<1>2. m = [configs |-> types, inited |-> no, unused |-> none, used |-> none,
           accounts |-> noOne, nUsed |-> zero, nUnused |-> zero]
  BY DEF Redeems!Empty
<1> HIDE DEF none, noOne, zero, no
<1>3. m \in Memories
  <2>1. AreMaps(types, no, none, none, noOne, zero, zero)
    BY Zenon, <1>1 DEF AreMaps
  <2> QED
    BY Zenon, <1>2, <2>1, MemoryIs
<1>4. /\ m.configs = types /\ m.unused = none /\ m.used = none
      /\ m.nUsed = zero /\ m.nUnused = zero
  BY <1>2
<1>5. ASSUME NEW t \in Types PROVE m.nUnused[t] = Cardinality(CodesOf(m, t))
  <2>1. CodesOf(m, t) = {}
    BY <1>1, <1>4, RedeemAssumption DEF CodesOf
  <2> QED
    BY Zenon, <1>1, <1>4, <2>1, FS_EmptySet
<1>6. Tallied(m)
  BY Zenon, <1>1, <1>4, <1>5 DEF Tallied
<1> QED
  BY Zenon, <1>1, <1>3, <1>4, <1>6 DEF NoCodes
(* A nonempty set of natural numbers has a least element.                  *)
LEMMA LeastOf ==
    ASSUME NEW S, S \subseteq Nat, S # {}
    PROVE  \E m \in S : \A k \in S : m <= k
<1> DEFINE R == OpToRel(<, Nat)
<1>1. PICK m \in S : \A k \in S : ~(<<k, m>> \in R)
  BY Zenon, WFMin, NatLessThanWellFounded
<1>2. R = {ss \in Nat \X Nat : ss[1] < ss[2]}
  BY Zenon DEF OpToRel
<1> HIDE DEF R
<1>3. \A k, n \in Nat : k < n => <<k, n>> \in R
  <2> SUFFICES ASSUME NEW k \in Nat, NEW n \in Nat, k < n
               PROVE  <<k, n>> \in {ss \in Nat \X Nat : ss[1] < ss[2]}
    BY Zenon, <1>2
  <2> QED
    BY Zenon
<1>4. \A k \in S : ~(k < m)
  BY Zenon, <1>1, <1>3
<1>5. \A k \in S : m <= k
  <2> TAKE k \in S
  <2>1. k \in Nat /\ m \in Nat
    BY Zenon
  <2> QED
    BY <1>4, <2>1
<1> QED
  BY Zenon, <1>5

(* What is in memory after n rows is what the recursion says.              *)
LEMMA LoadStep ==
    ASSUME Len(rows) \in Nat
    PROVE  \A n \in 0 .. Len(rows) :
               Redeems!Load[n] =
                   [types \in SUBSET Types |->
                       IF n = 0 THEN [Redeems!Empty EXCEPT !.configs = types]
                       ELSE Redeems!AddCode(Redeems!Load[n - 1][types], rows[n])]
<1> DEFINE T == SUBSET Types
           First(types) == [Redeems!Empty EXCEPT !.configs = types]
           Loads(m, f) ==
              f = [n \in 0 .. m |->
                     [types \in T |-> IF n = 0 THEN First(types)
                                      ELSE Redeems!AddCode(f[n - 1][types], rows[n])]]
           Without == {m \in Nat : ~\E f : Loads(m, f)}
<1> HIDE DEF First
<1>1. \E f : Loads(0, f)
  <2> DEFINE f == [n \in 0 .. 0 |-> [types \in T |-> First(types)]]
  <2>1. \A n \in 0 .. 0 : n = 0
    OBVIOUS
  <2>2. Loads(0, f)
    BY Zenon, <2>1
  <2> QED
    BY Zenon, <2>2
<1>2. ASSUME NEW m \in Nat, NEW f, Loads(m, f)
      PROVE  \E g : Loads(m + 1, g)
  <2> DEFINE g == [n \in 0 .. m + 1 |->
                     IF n = m + 1
                     THEN [types \in T |-> Redeems!AddCode(f[m][types], rows[m + 1])]
                     ELSE f[n]]
             h == [n \in 0 .. m + 1 |->
                     [types \in T |-> IF n = 0 THEN First(types)
                                      ELSE Redeems!AddCode(g[n - 1][types], rows[n])]]
  <2>1. \A n \in 0 .. m :
          f[n] = [types \in T |-> IF n = 0 THEN First(types)
                                  ELSE Redeems!AddCode(f[n - 1][types], rows[n])]
    BY Zenon, <1>2
  <2>2. ASSUME NEW n \in 0 .. m + 1 PROVE g[n] = h[n]
    <3>1. CASE n = m + 1
      <4>1. n # 0 /\ n - 1 = m /\ m \in 0 .. m + 1 /\ m # m + 1
        BY <3>1
      <4>2. g[m] = f[m]
        BY Zenon, <4>1
      <4> QED
        BY Zenon, <3>1, <4>1, <4>2
    <3>2. CASE n # m + 1
      <4>1. n \in 0 .. m
        BY <3>2
      <4>2. n # 0 => n - 1 \in 0 .. m + 1 /\ n - 1 # m + 1
        BY <3>2
      <4>3. g[n] = f[n] /\ (n # 0 => g[n - 1] = f[n - 1])
        BY Zenon, <3>2, <4>1, <4>2
      <4>4. CASE n = 0
        BY Zenon, <2>1, <4>1, <4>3, <4>4
      <4>5. CASE n # 0
        BY Zenon, <2>1, <4>1, <4>3, <4>5
      <4> QED
        BY Zenon, <4>4, <4>5
    <3> QED
      BY Zenon, <3>1, <3>2
  <2>3. g = h
    BY Zenon, <2>2
  <2>4. Loads(m + 1, g)
    BY Zenon, <2>3
  <2> QED
    BY Zenon, <2>4
<1>3. Without = {}
  <2> SUFFICES ASSUME Without # {} PROVE FALSE
    BY Zenon
  <2>1. PICK m \in Without : \A k \in Without : m <= k
    <3>1. Without \subseteq Nat
      BY Zenon
    <3> HIDE DEF Without
    <3> QED
      BY Zenon, <3>1, LeastOf
  <2>2. m \in Nat /\ m # 0 /\ ~\E g : Loads(m, g)
    BY Zenon, <1>1
  <2>3. m - 1 \in Nat /\ ~(m <= m - 1) /\ (m - 1) + 1 = m
    BY <2>2
  <2>4. PICK f : Loads(m - 1, f)
    <3>1. m - 1 \notin Without
      BY Zenon, <2>1, <2>3
    <3> HIDE DEF Loads
    <3> QED
      BY Zenon, <2>3, <3>1
  <2>5. \E g : Loads((m - 1) + 1, g)
    <3> HIDE DEF Loads
    <3> QED
      BY Zenon, <1>2, <2>3, <2>4
  <2> HIDE DEF Loads
  <2> QED
    BY Zenon, <2>2, <2>3, <2>5
<1>4. \E f : Loads(Len(rows), f)
  BY Zenon, <1>3
<1>5. Loads(Len(rows), Redeems!Load)
  BY Zenon, <1>4 DEF Redeems!Load, First
<1> QED
  BY Zenon, <1>5 DEF First

(* The same, row by row.                                                   *)
LEMMA LoadNext ==
    ASSUME Len(rows) \in Nat, NEW types \in SUBSET Types
    PROVE  /\ Redeems!Load[0][types] = [Redeems!Empty EXCEPT !.configs = types]
           /\ \A n \in 1 .. Len(rows) :
                  Redeems!Load[n][types] = Redeems!AddCode(Redeems!Load[n - 1][types], rows[n])
<1>1. 0 \in 0 .. Len(rows) /\ \A n \in 1 .. Len(rows) : n \in 0 .. Len(rows) /\ n # 0
  OBVIOUS
<1>2. Redeems!Load[0][types] = [Redeems!Empty EXCEPT !.configs = types]
  BY Zenon, <1>1, LoadStep
<1>3. ASSUME NEW n \in 1 .. Len(rows)
      PROVE  Redeems!Load[n][types] = Redeems!AddCode(Redeems!Load[n - 1][types], rows[n])
  BY Zenon, <1>1, LoadStep
<1> QED
  BY Zenon, <1>2, <1>3

\* The codes in the maps of m are those of the first k rows of w.
From(m, w, k) ==
    /\ UnusedFrom(m, w, k)
    /\ \A c \in Codes : m.used[c] # None => \E i \in 1 .. k : w[i].code = c /\ Marks(w[i])

\* The memory m after a load has read k rows.
Read(m, types, w, k) ==
    m \in Memories /\ Tallied(m) /\ m.configs = types /\ From(m, w, k)

(* One more row of a load, whatever rows there are.                        *)
LEMMA FromStep ==
    ASSUME NEW w, NEW k \in Nat, NEW v \in RowSet, w[k + 1] = v,
           NEW m \in Memories, Tallied(m), From(m, w, k),
           NEW u, u = Redeems!AddCode(m, v)
    PROVE  Read(u, m.configs, w, k + 1)
<1>1. v.code \in Codes /\ v = Redeems!Row(v.code, v.type, v.account)
  BY DEF RowSet, Redeems!Row
<1>2. k + 1 \in 1 .. k + 1 /\ 1 .. k \subseteq 1 .. k + 1
  OBVIOUS
<1>3. CASE Passed(m, v)
  <2>1. u = m
    BY Zenon, <1>3, AddCodeIs
  <2> QED
    BY Zenon, <1>2, <2>1 DEF From, UnusedFrom, Read
<1>4. CASE ~Passed(m, v) /\ v.account = None
  <2>1. u = Redeems!Unused(m, {v.code}, v.type)
    BY Zenon, <1>4, AddCodeIs
  <2>2. v.type \in m.configs /\ m.unused[v.code] = None
    BY Zenon, <1>4, NewIsNew
  <2>3. /\ u \in Memories /\ Tallied(u) /\ u.configs = m.configs /\ u.used = m.used
        /\ \A c \in Codes : u.unused[c] = IF c \in {v.code} THEN v.type ELSE m.unused[c]
    <3>1. {v.code} \in SUBSET Codes /\ \A c \in {v.code} : m.unused[c] = None
      BY Zenon, <1>1, <2>2
    <3>2. MoreUnused(u, m, {v.code}, v.type)
      BY Zenon, <2>1, <2>2, <3>1, UnusedIs
    <3> QED
      BY Zenon, <3>2 DEF MoreUnused
  <2>4. w[k + 1] = Redeems!Row(v.code, v.type, None)
    BY Zenon, <1>1, <1>4
  <2>5. ASSUME NEW c \in Codes, u.unused[c] # None
        PROVE  \E i \in 1 .. k + 1 : w[i] = Redeems!Row(c, u.unused[c], None)
    <3>1. CASE c = v.code
      BY Zenon, <1>2, <2>3, <2>4, <3>1
    <3>2. CASE c # v.code
      <4>1. u.unused[c] = m.unused[c]
        BY Zenon, <2>3, <3>2
      <4> QED
        BY Zenon, <1>2, <2>5, <4>1 DEF From, UnusedFrom
    <3> QED
      BY Zenon, <3>1, <3>2
  <2>6. ASSUME NEW c \in Codes, u.used[c] # None
        PROVE  \E i \in 1 .. k + 1 : w[i].code = c /\ Marks(w[i])
    <3>1. m.used[c] # None
      BY Zenon, <2>3, <2>6
    <3> QED
      BY Zenon, <1>2, <3>1 DEF From, UnusedFrom
  <2> QED
    BY Zenon, <2>3, <2>5, <2>6 DEF From, UnusedFrom, Read
<1>5. CASE ~Passed(m, v) /\ v.account # None
  <2>1. u = Redeems!Counted(Redeems!RememberUse(m, v), v.type)
    BY Zenon, <1>5, AddCodeIs
  <2>2. /\ u \in Memories /\ Tallied(u) /\ u.configs = m.configs /\ u.unused = m.unused
        /\ \A c \in Codes :
               u.used[c] = IF Marks(v) /\ c = v.code THEN v.account ELSE m.used[c]
    <3>1. MoreUsed(u, m, v)
      BY Zenon, <1>5, <2>1, UsedIs
    <3> QED
      BY Zenon, <3>1 DEF MoreUsed
  <2>3. ASSUME NEW c \in Codes, u.used[c] # None
        PROVE  \E i \in 1 .. k + 1 : w[i].code = c /\ Marks(w[i])
    <3>1. CASE Marks(v) /\ c = v.code
      BY Zenon, <1>2, <3>1
    <3>2. CASE ~(Marks(v) /\ c = v.code)
      <4>1. u.used[c] = m.used[c]
        BY Zenon, <2>2, <3>2
      <4> QED
        BY Zenon, <1>2, <2>3, <4>1 DEF From, UnusedFrom
    <3> QED
      BY Zenon, <3>1, <3>2
  <2>4. ASSUME NEW c \in Codes, u.unused[c] # None
        PROVE  \E i \in 1 .. k + 1 : w[i] = Redeems!Row(c, u.unused[c], None)
    <3>1. u.unused[c] = m.unused[c]
      BY Zenon, <2>2
    <3> QED
      BY Zenon, <1>2, <2>4, <3>1 DEF From, UnusedFrom
  <2> QED
    BY Zenon, <2>2, <2>3, <2>4 DEF From, UnusedFrom, Read
<1> QED
  BY Zenon, <1>3, <1>4, <1>5

(* A load, cut short or not, leaves in memory only what the rows say: this *)
(* is all that is known of one that ended early.                           *)
LEMMA LoadIsFrom ==
    ASSUME rows \in Seq(RowSet), NEW types \in SUBSET Types
    PROVE  \A n \in 0 .. Len(rows) : Read(Redeems!Load[n][types], types, rows, n)
<1> DEFINE L(n) == Redeems!Load[n][types]
           P(n) == Read(L(n), types, rows, n)
           Bad == {n \in 0 .. Len(rows) : ~P(n)}
<1>1. Len(rows) \in Nat /\ 0 \in 0 .. Len(rows) /\ \A i \in 1 .. Len(rows) : rows[i] \in RowSet
  OBVIOUS
<1>2. P(0)
  <2>1. L(0) = [Redeems!Empty EXCEPT !.configs = types]
    BY Zenon, <1>1, LoadNext
  <2>2. /\ L(0) \in Memories /\ Tallied(L(0)) /\ L(0).configs = types
        /\ \A c \in Codes : L(0).unused[c] = None /\ L(0).used[c] = None
    <3>1. NoCodes(L(0), types)
      BY Zenon, <2>1, EmptyIs
    <3> QED
      BY Zenon, <3>1 DEF NoCodes
  <2> HIDE DEF L
  <2> QED
    BY Zenon, <2>2 DEF From, UnusedFrom, Read
<1>3. ASSUME NEW k \in Nat, k + 1 \in 1 .. Len(rows), P(k) PROVE P(k + 1)
  <2>1. k + 1 \in 0 .. Len(rows) /\ k + 1 # 0 /\ (k + 1) - 1 = k
    BY <1>1, <1>3
  <2>2. L(k + 1) = Redeems!AddCode(L(k), rows[k + 1])
    BY Zenon, <1>1, <1>3, <2>1, LoadNext
  <2> HIDE DEF L
  <2>3. L(k) \in Memories /\ Tallied(L(k)) /\ L(k).configs = types /\ From(L(k), rows, k)
    BY Zenon, <1>3 DEF Read
  <2>4. Read(L(k + 1), L(k).configs, rows, k + 1)
    BY Zenon, <1>1, <1>3, <2>2, <2>3, FromStep
  <2> QED
    BY Zenon, <2>3, <2>4
<1> HIDE DEF P
<1>4. Bad = {}
  <2> SUFFICES ASSUME Bad # {} PROVE FALSE
    OBVIOUS
  <2>1. Bad \subseteq Nat
    BY <1>1
  <2>2. PICK m \in Bad : \A k \in Bad : m <= k
    <3> HIDE DEF Bad
    <3> QED
      BY Zenon, <2>1, LeastOf
  <2>3. m # 0
    BY Zenon, <1>2
  <2>4. /\ m - 1 \in Nat /\ (m - 1) + 1 = m /\ m \in 1 .. Len(rows)
        /\ m - 1 \in 0 .. Len(rows) /\ ~(m <= m - 1)
    BY <1>1, <2>3
  <2>5. P(m - 1)
    BY Zenon, <2>2, <2>4
  <2> QED
    BY Zenon, <1>3, <2>4, <2>5
<1> QED
  BY Zenon, <1>4 DEF P

(* The uses among one row more.                                            *)
LEMMA UsesStep ==
    ASSUME NEW w, NEW k \in Nat, NEW t
    PROVE  /\ Cardinality(UsesOf(w, k, t)) \in Nat
           /\ Cardinality(UsesOf(w, k + 1, t)) =
                IF w[k + 1].type = t /\ w[k + 1].account # None
                THEN Cardinality(UsesOf(w, k, t)) + 1 ELSE Cardinality(UsesOf(w, k, t))
<1>1. IsFiniteSet(UsesOf(w, k, t)) /\ Cardinality(UsesOf(w, k, t)) \in Nat
  <2>1. IsFiniteSet(1 .. k)
    BY FS_Interval
  <2>2. UsesOf(w, k, t) \subseteq 1 .. k
    BY Zenon DEF UsesOf
  <2> QED
    BY Zenon, <2>1, <2>2, FS_Subset, FS_CardinalityType
<1>2. k + 1 \notin 1 .. k /\ 1 .. k + 1 = (1 .. k) \cup {k + 1}
  OBVIOUS
<1>3. CASE w[k + 1].type = t /\ w[k + 1].account # None
  <2>1. UsesOf(w, k + 1, t) = UsesOf(w, k, t) \cup {k + 1} /\ k + 1 \notin UsesOf(w, k, t)
    BY Zenon, <1>2, <1>3 DEF UsesOf
  <2>2. Cardinality(UsesOf(w, k, t) \cup {k + 1}) = Cardinality(UsesOf(w, k, t)) + 1
    BY Zenon, <1>1, <2>1, FS_AddElement
  <2> QED
    BY Zenon, <1>1, <1>3, <2>1, <2>2
<1>4. CASE ~(w[k + 1].type = t /\ w[k + 1].account # None)
  <2>1. UsesOf(w, k + 1, t) = UsesOf(w, k, t)
    BY Zenon, <1>2, <1>4 DEF UsesOf
  <2> QED
    BY Zenon, <1>1, <1>4, <2>1
<1> QED
  BY Zenon, <1>3, <1>4

\* The rows of w from k + 1 to n are of the unused codes cs of type t.
RowsAdded(w, k, n, cs, t) ==
    /\ k <= n
    /\ \A i \in k + 1 .. n : \E c \in cs : w[i] = Redeems!Row(c, t, None)
    /\ \A c \in cs : \E i \in k + 1 .. n : w[i] = Redeems!Row(c, t, None)

(* A memory with more unused codes, for rows with more rows.               *)
LEMMA HasUnused ==
    ASSUME NEW w, NEW k \in Nat, NEW n \in Nat, NEW cs \in SUBSET Codes, NEW t0 \in Types,
           \A i \in 1 .. k : w[i] \in RowSet, RowsAdded(w, k, n, cs, t0),
           NEW m, Has(m, w, k), NEW u, MoreUnused(u, m, cs, t0)
    PROVE  Has(u, w, n)
<1>1. 1 .. n = (1 .. k) \cup (k + 1 .. n) /\ t0 # None
  BY RedeemAssumption DEF RowsAdded
<1>2. \A c \in Codes : u.unused[c] = IF c \in cs THEN t0 ELSE m.unused[c]
  BY Zenon DEF MoreUnused
<1>3. u.used = m.used /\ u.accounts = m.accounts /\ u.nUsed = m.nUsed
  BY Zenon DEF MoreUnused
<1>4. \A i \in 1 .. k : w[i].code \in Codes /\ w[i].type # None
  BY RedeemAssumption DEF RowSet
<1>5. \A c \in Codes : m.unused[c] # None => u.unused[c] = m.unused[c]
  BY Zenon, <1>2 DEF MoreUnused
<1>6. ASSUME NEW i \in k + 1 .. n
      PROVE  w[i].code \in cs /\ w[i].type = t0 /\ w[i].account = None
  <2>1. PICK c \in cs : w[i] = Redeems!Row(c, t0, None)
    BY Zenon DEF RowsAdded
  <2> QED
    BY <2>1 DEF Redeems!Row
<1>7. UnusedRead(u, w, n)
  <2>1. ASSUME NEW i \in 1 .. k, w[i].account = None PROVE u.unused[w[i].code] = w[i].type
    <3>1. m.unused[w[i].code] = w[i].type
      BY Zenon, <2>1 DEF Has, UnusedRead
    <3> QED
      BY Zenon, <1>4, <1>5, <3>1
  <2>2. ASSUME NEW i \in k + 1 .. n PROVE u.unused[w[i].code] = w[i].type
    BY Zenon, <1>2, <1>6
  <2> QED
    BY Zenon, <1>1, <2>1, <2>2 DEF UnusedRead
<1>8. UnusedFrom(u, w, n)
  <2> SUFFICES ASSUME NEW c \in Codes, u.unused[c] # None
               PROVE  \E i \in 1 .. n : w[i] = Redeems!Row(c, u.unused[c], None)
    BY Zenon DEF UnusedFrom
  <2>1. CASE c \in cs
    BY Zenon, <1>1, <1>2, <2>1 DEF RowsAdded
  <2>2. CASE c \notin cs
    <3>1. u.unused[c] = m.unused[c]
      BY Zenon, <1>2, <2>2
    <3> QED
      BY Zenon, <1>1, <3>1 DEF Has, UnusedFrom
  <2> QED
    BY Zenon, <2>1, <2>2
<1>9. UsesRead(u, w, n)
  <2>1. \A i \in k + 1 .. n : ~Marks(w[i])
    BY Zenon, <1>6 DEF Marks
  <2>2. ASSUME NEW i \in 1 .. k, Marks(w[i])
        PROVE  /\ w[i].account \in u.accounts[Redeems!Group(w[i].type)]
               /\ Unlimited(w[i]) => u.unused[w[i].code] = w[i].type
               /\ ~Unlimited(w[i]) => u.used[w[i].code] # None
    <3>1. /\ w[i].account \in m.accounts[Redeems!Group(w[i].type)]
          /\ Unlimited(w[i]) => m.unused[w[i].code] = w[i].type
          /\ ~Unlimited(w[i]) => m.used[w[i].code] # None
      BY Zenon, <2>2 DEF Has, UsesRead
    <3>2. Unlimited(w[i]) => u.unused[w[i].code] = w[i].type
      BY Zenon, <1>4, <1>5, <3>1
    <3> QED
      BY Zenon, <1>3, <3>1, <3>2
  <2> QED
    BY Zenon, <1>1, <2>1, <2>2 DEF UsesRead
<1>10. UsesCounted(u, w, n)
  <2>1. \A t \in Types : UsesOf(w, n, t) = UsesOf(w, k, t)
    BY Zenon, <1>1, <1>6 DEF UsesOf
  <2> QED
    BY Zenon, <1>3, <2>1 DEF Has, UsesCounted
<1> QED
  BY Zenon, <1>7, <1>8, <1>9, <1>10 DEF Has

\* The memory u has the use of row v, and what m has.
UseKept(u, m, v) ==
    /\ Unlimited(v) => m.unused[v.code] = v.type
    /\ \A c \in Codes : u.unused[c] = m.unused[c]
    /\ \A c \in Codes : m.used[c] # None => u.used[c] # None
    /\ \A g \in Redeems!Groups : m.accounts[g] \subseteq u.accounts[g]
    /\ Marks(v) => v.account \in u.accounts[Redeems!Group(v.type)]
    /\ Marks(v) /\ ~Unlimited(v) => u.used[v.code] # None
    /\ \A t \in Types : u.nUsed[t] = IF t = v.type THEN m.nUsed[t] + 1 ELSE m.nUsed[t]

(* A memory with one more use, for rows with one more row.                 *)
LEMMA HasUsed ==
    ASSUME NEW w, NEW k \in Nat, NEW v \in RowSet, v.account # None,
           w[k + 1] = v, \A i \in 1 .. k : w[i] \in RowSet,
           NEW m, Has(m, w, k), NEW u, UseKept(u, m, v)
    PROVE  Has(u, w, k + 1)
<1>1. 1 .. k + 1 = (1 .. k) \cup {k + 1}
  OBVIOUS
<1>2. \A i \in 1 .. k : w[i].code \in Codes /\ Redeems!Group(w[i].type) \in Redeems!Groups
  <2>1. \A i \in 1 .. k : w[i].code \in Codes /\ w[i].type \in Types
    BY DEF RowSet
  <2> QED
    BY Zenon, <2>1, GroupIs
<1>3. UnusedRead(u, w, k + 1)
  <2>1. \A i \in 1 .. k : w[i].account = None => u.unused[w[i].code] = w[i].type
    BY Zenon, <1>2 DEF Has, UnusedRead, UseKept
  <2> QED
    BY Zenon, <1>1, <2>1 DEF UnusedRead
<1>4. UnusedFrom(u, w, k + 1)
  <2> SUFFICES ASSUME NEW c \in Codes, u.unused[c] # None
               PROVE  \E i \in 1 .. k + 1 : w[i] = Redeems!Row(c, u.unused[c], None)
    BY Zenon DEF UnusedFrom
  <2>1. u.unused[c] = m.unused[c]
    BY Zenon DEF UseKept
  <2> QED
    BY Zenon, <1>1, <2>1 DEF Has, UnusedFrom
<1>5. UsesRead(u, w, k + 1)
  <2> SUFFICES ASSUME NEW i \in 1 .. k + 1, Marks(w[i])
               PROVE  /\ w[i].account \in u.accounts[Redeems!Group(w[i].type)]
                      /\ Unlimited(w[i]) => u.unused[w[i].code] = w[i].type
                      /\ ~Unlimited(w[i]) => u.used[w[i].code] # None
    BY Zenon DEF UsesRead
  <2>1. CASE i = k + 1
    BY Zenon, <2>1, RowIs DEF UseKept
  <2>2. CASE i \in 1 .. k
    <3>1. /\ w[i].account \in m.accounts[Redeems!Group(w[i].type)]
          /\ Unlimited(w[i]) => m.unused[w[i].code] = w[i].type
          /\ ~Unlimited(w[i]) => m.used[w[i].code] # None
      BY Zenon, <2>2 DEF Has, UsesRead
    <3> QED
      BY Zenon, <1>2, <2>2, <3>1 DEF UseKept
  <2> QED
    BY Zenon, <1>1, <2>1, <2>2
<1>6. UsesCounted(u, w, k + 1)
  <2> SUFFICES ASSUME NEW t \in Types
               PROVE  u.nUsed[t] = Cardinality(UsesOf(w, k + 1, t))
    BY Zenon DEF UsesCounted
  <2>1. m.nUsed[t] = Cardinality(UsesOf(w, k, t))
    BY Zenon DEF Has, UsesCounted
  <2>2. CASE t = v.type
    <3>1. Cardinality(UsesOf(w, k + 1, t)) = Cardinality(UsesOf(w, k, t)) + 1
      BY Zenon, <2>2, UsesStep
    <3> QED
      BY Zenon, <2>1, <2>2, <3>1 DEF UseKept
  <2>3. CASE t # v.type
    <3>1. Cardinality(UsesOf(w, k + 1, t)) = Cardinality(UsesOf(w, k, t))
      BY Zenon, <2>3, UsesStep
    <3> QED
      BY Zenon, <2>1, <2>3, <3>1 DEF UseKept
  <2> QED
    BY Zenon, <2>2, <2>3
<1> QED
  BY Zenon, <1>3, <1>4, <1>5, <1>6 DEF Has

(* One more row of a load that passes none over that it should not.        *)
LEMMA HasStep ==
    ASSUME NEW w \in Seq(RowSet), Orderly(w), NEW k \in Nat, k + 1 \in 1 .. Len(w),
           NEW m \in Memories, Tallied(m), From(m, w, k), Has(m, w, k),
           w[k + 1].type \in m.configs, NEW u, u = Redeems!AddCode(m, w[k + 1])
    PROVE  Has(u, w, k + 1)
<1> DEFINE v == w[k + 1]
<1>1. /\ v \in RowSet /\ v.code \in Codes /\ v.type \in Types
      /\ v = Redeems!Row(v.code, v.type, v.account)
      /\ \A i \in 1 .. k : i \in 1 .. Len(w) /\ i < k + 1 /\ w[i] \in RowSet
      /\ \A i \in 1 .. Len(w) : i < k + 1 => i \in 1 .. k
  <2>1. \A i \in 1 .. Len(w) : w[i] \in RowSet
    OBVIOUS
  <2>2. /\ \A i \in 1 .. k : i \in 1 .. Len(w) /\ i < k + 1
        /\ \A i \in 1 .. Len(w) : i < k + 1 => i \in 1 .. k
    OBVIOUS
  <2> QED
    BY Zenon, <2>1, <2>2, RowIs
<1>0. w[k + 1] = v
  OBVIOUS
<1> HIDE DEF v
<1>2. Unlimited(v) => m.unused[v.code] = v.type
  <2> SUFFICES ASSUME Unlimited(v) PROVE m.unused[v.code] = v.type
    OBVIOUS
  <2>1. PICK j \in 1 .. Len(w) : j < k + 1 /\ w[j] = Redeems!Row(v.code, v.type, None)
    BY Zenon, <1>0 DEF Orderly
  <2>2. j \in 1 .. k /\ w[j].code = v.code /\ w[j].type = v.type /\ w[j].account = None
    BY <1>1, <2>1 DEF Redeems!Row
  <2> QED
    BY Zenon, <2>2 DEF Has, UnusedRead
<1>3. ~Unlimited(v) => ~Redeems!Known(m, v.code, v.type)
  <2> SUFFICES ASSUME ~Unlimited(v) PROVE ~Redeems!Known(m, v.code, v.type)
    OBVIOUS
  <2>1. \A i \in 1 .. k : ~Blocks(w[i], v)
    BY Zenon, <1>0, <1>1 DEF Orderly
  <2>2. m.unused[v.code] = None
    <3> SUFFICES ASSUME m.unused[v.code] # None PROVE FALSE
      OBVIOUS
    <3>1. PICK i \in 1 .. k : w[i] = Redeems!Row(v.code, m.unused[v.code], None)
      BY Zenon, <1>1 DEF Has, UnusedFrom
    <3>2. w[i].code = v.code /\ w[i].account = None
      BY <3>1 DEF Redeems!Row
    <3> QED
      BY Zenon, <2>1, <3>2 DEF Blocks
  <2>3. Redeems!Group(v.type) >= 0 => m.used[v.code] = None
    BY Zenon, <1>1, <2>1 DEF From, Blocks
  <2> QED
    BY Zenon, <2>2, <2>3 DEF Redeems!Known
<1>4. ~Passed(m, v)
  BY Zenon, <1>0, <1>3 DEF Passed
<1>5. CASE v.account = None
  <2>1. u = Redeems!Unused(m, {v.code}, v.type) /\ m.unused[v.code] = None
    BY Zenon, <1>0, <1>4, <1>5, AddCodeIs, NewIsNew
  <2>2. {v.code} \in SUBSET Codes /\ \A c \in {v.code} : m.unused[c] = None
    BY Zenon, <1>1, <2>1
  <2>3. MoreUnused(u, m, {v.code}, v.type)
    BY Zenon, <1>0, <2>1, <2>2, UnusedIs
  <2>4. k + 1 \in Nat /\ k <= k + 1 /\ \A i : i \in k + 1 .. k + 1 <=> i = k + 1
    OBVIOUS
  <2>5. w[k + 1] = Redeems!Row(v.code, v.type, None)
    BY Zenon, <1>0, <1>1, <1>5
  <2>6. RowsAdded(w, k, k + 1, {v.code}, v.type)
    BY Zenon, <2>4, <2>5 DEF RowsAdded
  <2>7. \A i \in 1 .. k : w[i] \in RowSet
    BY Zenon, <1>1
  <2> QED
    BY <1>1, <2>2, <2>3, <2>4, <2>6, <2>7, HasUnused
<1>6. CASE v.account # None
  <2>1. u = Redeems!Counted(Redeems!RememberUse(m, v), v.type)
    BY Zenon, <1>0, <1>4, <1>6, AddCodeIs
  <2>2. MoreUsed(u, m, v)
    BY Zenon, <1>1, <1>6, <2>1, UsedIs
  <2>3. Redeems!Group(v.type) \in Redeems!Groups
    BY Zenon, <1>1, GroupIs
  <2>4. /\ \A c \in Codes : u.unused[c] = m.unused[c]
        /\ \A t \in Types : u.nUsed[t] = IF t = v.type THEN m.nUsed[t] + 1 ELSE m.nUsed[t]
    BY Zenon, <2>2 DEF MoreUsed
  <2>5. /\ \A c \in Codes : m.used[c] # None => u.used[c] # None
        /\ Marks(v) /\ ~Unlimited(v) => u.used[v.code] # None
    BY Zenon, <1>1, <1>6, <2>2 DEF MoreUsed
  <2>6. /\ \A g \in Redeems!Groups : m.accounts[g] \subseteq u.accounts[g]
        /\ Marks(v) => v.account \in u.accounts[Redeems!Group(v.type)]
    BY Zenon, <2>2, <2>3 DEF MoreUsed
  <2>7. UseKept(u, m, v)
    BY Zenon, <1>2, <2>4, <2>5, <2>6 DEF UseKept
  <2> QED
    BY Zenon, <1>0, <1>1, <1>6, <2>7, HasUsed
<1> QED
  BY Zenon, <1>5, <1>6

(* A complete load of orderly rows has what they say.                      *)
LEMMA LoadHas ==
    ASSUME rows \in Seq(RowSet), Orderly(rows), NEW types \in SUBSET Types,
           \A i \in 1 .. Len(rows) : rows[i].type \in types
    PROVE  Has(Redeems!Load[Len(rows)][types], rows, Len(rows))
<1> DEFINE L(n) == Redeems!Load[n][types]
           P(n) == Has(L(n), rows, n)
           Bad == {n \in 0 .. Len(rows) : ~P(n)}
<1>1. Len(rows) \in Nat /\ 0 \in 0 .. Len(rows) /\ Len(rows) \in 0 .. Len(rows)
  OBVIOUS
<1>2. P(0)
  <2>1. L(0) = [Redeems!Empty EXCEPT !.configs = types]
    BY Zenon, <1>1, LoadNext
  <2>2. NoCodes(L(0), types)
    BY Zenon, <2>1, EmptyIs
  <2>3. \A i \in 1 .. 0 : FALSE
    OBVIOUS
  <2>4. \A t : Cardinality(UsesOf(rows, 0, t)) = 0
    <3>1. \A t : UsesOf(rows, 0, t) = {}
      BY Zenon, <2>3 DEF UsesOf
    <3> QED
      BY Zenon, <3>1, FS_EmptySet
  <2> HIDE DEF L
  <2> QED
    BY Zenon, <2>2, <2>3, <2>4
       DEF NoCodes, Has, UnusedRead, UnusedFrom, UsesRead, UsesCounted
<1>3. ASSUME NEW k \in Nat, k + 1 \in 1 .. Len(rows), P(k) PROVE P(k + 1)
  <2>1. k \in 0 .. Len(rows) /\ (k + 1) - 1 = k
    BY <1>1, <1>3
  <2>2. L(k + 1) = Redeems!AddCode(L(k), rows[k + 1])
    BY Zenon, <1>1, <1>3, <2>1, LoadNext
  <2>3. Read(L(k), types, rows, k)
    BY Zenon, <2>1, LoadIsFrom
  <2> HIDE DEF L
  <2>4. L(k) \in Memories /\ Tallied(L(k)) /\ L(k).configs = types /\ From(L(k), rows, k)
    BY Zenon, <2>3 DEF Read
  <2> QED
    BY Zenon, <1>3, <2>2, <2>4, HasStep
<1> HIDE DEF P
<1>4. Bad = {}
  <2> SUFFICES ASSUME Bad # {} PROVE FALSE
    OBVIOUS
  <2>1. Bad \subseteq Nat
    BY <1>1
  <2>2. PICK m \in Bad : \A k \in Bad : m <= k
    <3> HIDE DEF Bad
    <3> QED
      BY Zenon, <2>1, LeastOf
  <2>3. m # 0
    BY Zenon, <1>2
  <2>4. /\ m - 1 \in Nat /\ (m - 1) + 1 = m /\ m \in 1 .. Len(rows)
        /\ m - 1 \in 0 .. Len(rows) /\ ~(m <= m - 1)
    BY <1>1, <2>3
  <2>5. P(m - 1)
    BY Zenon, <2>2, <2>4
  <2> QED
    BY Zenon, <1>3, <2>4, <2>5
<1> QED
  BY Zenon, <1>1, <1>4 DEF P

\* The maps of codes of u are those of m.
SameMaps(u, m) ==
    u.unused = m.unused /\ u.used = m.used /\ u.accounts = m.accounts /\ u.nUsed = m.nUsed

(* What is said of a memory is said of its maps of codes.                  *)
LEMMA SameHas ==
    ASSUME NEW u, NEW m, SameMaps(u, m), NEW w, NEW k
    PROVE  (Has(m, w, k) => Has(u, w, k)) /\ (From(m, w, k) => From(u, w, k))
  BY Zenon DEF SameMaps, Has, From, UnusedRead, UnusedFrom, UsesRead, UsesCounted

(* The flag of a memory is set.                                            *)
LEMMA FlagIs ==
    ASSUME NEW m \in Memories, Tallied(m), NEW b \in BOOLEAN,
           NEW u, u = [m EXCEPT !.inited = b]
    PROVE  /\ u \in Memories /\ Tallied(u) /\ SameMaps(u, m)
           /\ u.configs = m.configs /\ u.inited = b
<1>1. /\ m = [configs |-> m.configs, inited |-> m.inited, unused |-> m.unused,
              used |-> m.used, accounts |-> m.accounts, nUsed |-> m.nUsed,
              nUnused |-> m.nUnused]
      /\ m.configs \in SUBSET Types /\ m.unused \in [Codes -> Types \cup {None}]
      /\ m.used \in [Codes -> Accounts \cup {None}]
      /\ m.accounts \in [Redeems!Groups -> SUBSET Accounts]
      /\ m.nUsed \in [Types -> Nat] /\ m.nUnused \in [Types -> Nat]
  BY DEF Memories
<1>2. u = [configs |-> m.configs, inited |-> b, unused |-> m.unused, used |-> m.used,
           accounts |-> m.accounts, nUsed |-> m.nUsed, nUnused |-> m.nUnused]
  BY <1>1
<1>3. u \in Memories
  <2>1. AreMaps(m.configs, b, m.unused, m.used, m.accounts, m.nUsed, m.nUnused)
    BY Zenon, <1>1 DEF AreMaps
  <2> QED
    BY Zenon, <1>2, <2>1, MemoryIs
<1>4. /\ u.configs = m.configs /\ u.inited = b /\ u.unused = m.unused /\ u.used = m.used
      /\ u.accounts = m.accounts /\ u.nUsed = m.nUsed /\ u.nUnused = m.nUnused
  BY <1>2
<1> QED
  BY Zenon, <1>3, <1>4 DEF SameMaps, Tallied, CodesOf

(* A type is added to a memory.                                            *)
LEMMA TypeIs ==
    ASSUME NEW m \in Memories, Tallied(m), NEW t \in Types,
           NEW u, u = [m EXCEPT !.configs = m.configs \cup {t}]
    PROVE  /\ u \in Memories /\ Tallied(u) /\ SameMaps(u, m)
           /\ u.configs = m.configs \cup {t} /\ u.inited = m.inited
<1>1. /\ m = [configs |-> m.configs, inited |-> m.inited, unused |-> m.unused,
              used |-> m.used, accounts |-> m.accounts, nUsed |-> m.nUsed,
              nUnused |-> m.nUnused]
      /\ m.configs \in SUBSET Types /\ m.unused \in [Codes -> Types \cup {None}]
      /\ m.used \in [Codes -> Accounts \cup {None}] /\ m.inited \in BOOLEAN
      /\ m.accounts \in [Redeems!Groups -> SUBSET Accounts]
      /\ m.nUsed \in [Types -> Nat] /\ m.nUnused \in [Types -> Nat]
  BY DEF Memories
<1> DEFINE cf == m.configs \cup {t}
<1>2. cf \in SUBSET Types
  BY Zenon, <1>1
<1> HIDE DEF cf
<1>3. u = [configs |-> cf, inited |-> m.inited, unused |-> m.unused, used |-> m.used,
           accounts |-> m.accounts, nUsed |-> m.nUsed, nUnused |-> m.nUnused]
  BY <1>1 DEF cf
<1>4. u \in Memories
  <2>1. AreMaps(cf, m.inited, m.unused, m.used, m.accounts, m.nUsed, m.nUnused)
    BY Zenon, <1>1, <1>2 DEF AreMaps
  <2> QED
    BY Zenon, <1>3, <2>1, MemoryIs
<1>5. /\ u.configs = cf /\ u.inited = m.inited /\ u.unused = m.unused /\ u.used = m.used
      /\ u.accounts = m.accounts /\ u.nUsed = m.nUsed /\ u.nUnused = m.nUnused
  BY <1>3
<1>6. Tallied(u)
  <2>1. \A c \in Codes : u.unused[c] \in u.configs \cup {None}
    BY Zenon, <1>5 DEF Tallied, cf
  <2>2. \A s : CodesOf(u, s) = CodesOf(m, s)
    BY Zenon, <1>5 DEF CodesOf
  <2> QED
    BY Zenon, <1>5, <2>1, <2>2 DEF Tallied
<1> QED
  BY Zenon, <1>4, <1>5, <1>6 DEF SameMaps, cf

(* Restart keeps the invariant: a load brings back no code that was given, *)
(* and a complete one brings back who was paid.                            *)
LEMMA RestartKeeps ==
    ASSUME RInv, ~lost, Redeems!Restart
    PROVE  RInv'
<1>1. PICK types \in SUBSET dbTypes, n \in 0 .. Len(rows), ok \in BOOLEAN :
        /\ r' = Redeems!Loaded(types, n, ok)
        /\ cut' = (cut \/ ~Redeems!Complete(types, n, ok))
  BY Zenon DEF Redeems!Restart
<1>2. /\ lost' = (lost \/ unsaved) /\ unsaved' = FALSE
      /\ dbTypes' = dbTypes /\ rows' = rows /\ made' = made /\ grants' = grants /\ paid' = paid
  BY Zenon DEF Redeems!Restart
<1> DEFINE m == Redeems!Load[n][types]
<1>3. r' = [m EXCEPT !.inited = ok]
  BY Zenon, <1>1 DEF Redeems!Loaded
<1>4. types \in SUBSET Types /\ rows \in Seq(RowSet)
  BY Zenon DEF RInv, RTyped
<1>5. Read(m, types, rows, n)
  BY Zenon, <1>4, LoadIsFrom
<1> HIDE DEF m
<1>6. /\ r' \in Memories /\ Tallied(r') /\ SameMaps(r', m)
      /\ r'.configs = types /\ r'.inited = ok
  <2>1. m \in Memories /\ Tallied(m) /\ m.configs = types
    BY Zenon, <1>5 DEF Read
  <2> QED
    BY Zenon, <1>3, <2>1, FlagIs
<1>7. RTyped'
  <2>1. lost' \in BOOLEAN /\ unsaved' \in BOOLEAN /\ cut' \in BOOLEAN
    BY Zenon, <1>1, <1>2
  <2> QED
    BY Zenon, <1>2, <1>6, <2>1 DEF RInv, RTyped
<1>8. Payable'
  <2> SUFFICES ASSUME ~lost' PROVE Payable'
    BY Zenon DEF Payable
  <2>1. ~unsaved
    BY Zenon, <1>2
  <2>2. ASSUME NEW c \in Codes, r'.unused[c] \in Redeems!Limited
        PROVE  grants[<<c, r'.unused[c]>>] < made[<<c, r'.unused[c]>>]
    <3>1. r'.unused[c] # None /\ r'.unused[c] = m.unused[c]
      BY Zenon, <1>6, <2>2, RedeemAssumption DEF SameMaps, Redeems!Limited
    <3>2. PICK i \in 1 .. n : rows[i] = Redeems!Row(c, r'.unused[c], None)
      BY Zenon, <1>5, <3>1 DEF Read, From, UnusedFrom
    <3>3. i \in 1 .. Len(rows)
      BY <1>4
    <3>4. rows[i].code = c /\ rows[i].type = r'.unused[c] /\ rows[i].account = None
      BY <3>2 DEF Redeems!Row
    <3> QED
      BY Zenon, <2>1, <2>2, <3>3, <3>4 DEF RInv, Payable
  <2>3. /\ \A x \in Codes \X Redeems!Limited : grants[x] <= made[x]
        /\ \A i \in 1 .. Len(rows) : rows[i].account = None /\ rows[i].type \in Redeems!Limited =>
             grants[<<rows[i].code, rows[i].type>>] < made[<<rows[i].code, rows[i].type>>]
    BY Zenon, <2>1 DEF RInv, Payable
  <2> QED
    BY Zenon, <1>2, <2>2, <2>3 DEF Payable
<1>9. Kept' /\ Saved'
  <2> SUFFICES ASSUME ~lost', ~cut' PROVE Kept' /\ Saved'
    BY Zenon DEF Kept, Saved
  <2>1. ~lost /\ ~unsaved /\ ~cut /\ types = dbTypes /\ n = Len(rows) /\ ok
    BY Zenon, <1>1, <1>2 DEF Redeems!Complete
  <2>2. TypesSaved /\ Orderly(rows) /\ PaidSaved /\ MadeSaved
    BY Zenon, <2>1 DEF RInv, Saved
  <2>3. \A i \in 1 .. Len(rows) : rows[i].type \in types
    BY Zenon, <2>1, <2>2 DEF TypesSaved
  <2>4. Has(m, rows, Len(rows))
    BY Zenon, <1>4, <2>1, <2>2, <2>3, LoadHas DEF m
  <2>5. Has(r', rows, Len(rows))
    BY Zenon, <1>6, <2>4, SameHas
  <2>6. TypesSaved'
    BY Zenon, <1>2, <1>6, <2>1, <2>3 DEF TypesSaved
  <2>7. PaidSaved' /\ MadeSaved'
    BY Zenon, <1>2, <2>2 DEF PaidSaved, MadeSaved
  <2>8. Saved'
    BY Zenon, <1>2, <2>2, <2>5, <2>6, <2>7 DEF Saved
  <2>9. ASSUME NEW g \in Redeems!Groups \ {Redeems!Unchecked}, NEW a \in Accounts
        PROVE  paid[<<g, a>>] <= 1 /\ (paid[<<g, a>>] # 0 => a \in r'.accounts[g])
    <3>1. paid[<<g, a>>] <= 1
      BY Zenon, <2>1 DEF RInv, Kept
    <3>2. ASSUME paid[<<g, a>>] # 0 PROVE a \in r'.accounts[g]
      <4>1. PICK i \in 1 .. Len(rows) : rows[i].account = a /\ Redeems!Group(rows[i].type) = g
        BY Zenon, <2>2, <3>2 DEF PaidSaved
      <4>2. Marks(rows[i])
        BY Zenon, <4>1, RedeemAssumption DEF Marks
      <4> QED
        BY Zenon, <2>5, <4>1, <4>2 DEF Has, UsesRead
    <3> QED
      BY Zenon, <3>1, <3>2
  <2>10. Kept'
    BY Zenon, <1>2, <1>6, <2>1, <2>9 DEF Kept
  <2> QED
    BY Zenon, <2>8, <2>10
<1> QED
  BY Zenon, <1>7, <1>8, <1>9 DEF RInv

(* AddConfig keeps the invariant.                                          *)
LEMMA AddConfigKeeps ==
    ASSUME RInv, NEW t \in Types, Redeems!AddConfig(t)
    PROVE  RInv'
<1>1. /\ rows' = rows /\ made' = made /\ grants' = grants /\ paid' = paid
      /\ lost' = lost /\ cut' = cut
  BY Zenon DEF Redeems!AddConfig
<1>2. \/ r' = r
      \/ r' = [r EXCEPT !.configs = r.configs \cup {t}]
  BY Zenon DEF Redeems!AddConfig
<1>3. /\ r' \in Memories /\ Tallied(r') /\ SameMaps(r', r) /\ r'.inited = r.inited
      /\ r.configs \subseteq r'.configs /\ r'.configs \subseteq r.configs \cup {t}
  <2>1. r \in Memories /\ Tallied(r)
    BY Zenon DEF RInv, RTyped
  <2>2. CASE r' = r
    BY Zenon, <2>1, <2>2 DEF SameMaps
  <2>3. CASE r' = [r EXCEPT !.configs = r.configs \cup {t}]
    <3>1. /\ r' \in Memories /\ Tallied(r') /\ SameMaps(r', r)
          /\ r'.configs = r.configs \cup {t} /\ r'.inited = r.inited
      BY Zenon, <2>1, <2>3, TypeIs
    <3> QED
      BY Zenon, <3>1
  <2> QED
    BY Zenon, <1>2, <2>2, <2>3
<1>4. \/ r.inited /\ dbTypes' = dbTypes \cup {t} /\ unsaved' = unsaved
      \/ ~r.inited /\ dbTypes' = dbTypes /\ unsaved' = TRUE
  BY Zenon DEF Redeems!AddConfig
<1>5. RTyped'
  <2>1. dbTypes' \subseteq Types /\ unsaved' \in BOOLEAN
    BY Zenon, <1>4 DEF RInv, RTyped
  <2> QED
    BY Zenon, <1>1, <1>3, <2>1 DEF RInv, RTyped
<1>6. Payable'
  <2>1. ~unsaved' => ~unsaved
    BY Zenon, <1>4
  <2>2. r'.unused = r.unused
    BY Zenon, <1>3 DEF SameMaps
  <2> QED
    BY Zenon, <1>1, <2>1, <2>2 DEF RInv, Payable
<1>7. Kept'
  <2>1. r'.accounts = r.accounts
    BY Zenon, <1>3 DEF SameMaps
  <2> QED
    BY Zenon, <1>1, <1>3, <2>1 DEF RInv, Kept
<1>8. Saved'
  <2> SUFFICES ASSUME ~lost', ~cut', ~unsaved' PROVE Saved'
    BY Zenon DEF Saved
  <2>0. dbTypes' = dbTypes \cup {t} /\ unsaved' = unsaved
    BY Zenon, <1>4
  <2>1. ~lost /\ ~cut /\ ~unsaved
    BY Zenon, <1>1, <2>0
  <2>2. TypesSaved /\ Orderly(rows) /\ Has(r, rows, Len(rows)) /\ PaidSaved /\ MadeSaved
    BY Zenon, <2>1 DEF RInv, Saved
  <2>3. TypesSaved'
    BY Zenon, <1>1, <1>3, <2>0, <2>2 DEF TypesSaved
  <2>4. Has(r', rows, Len(rows))
    BY Zenon, <1>3, <2>2, SameHas
  <2>5. PaidSaved' /\ MadeSaved'
    BY Zenon, <1>1, <2>2 DEF PaidSaved, MadeSaved
  <2> QED
    BY Zenon, <1>1, <2>2, <2>3, <2>4, <2>5 DEF Saved
<1> QED
  BY Zenon, <1>5, <1>6, <1>7, <1>8 DEF RInv

(* One sequence after another.                                             *)
LEMMA ConcatIs ==
    ASSUME NEW S, NEW s \in Seq(S), NEW e \in Seq(S)
    PROVE  /\ s \o e \in Seq(S) /\ Len(s \o e) = Len(s) + Len(e)
           /\ \A i \in 1 .. Len(s) : (s \o e)[i] = s[i]
           /\ \A i \in Len(s) + 1 .. Len(s) + Len(e) : (s \o e)[i] = e[i - Len(s)]
  OBVIOUS

\* The sequence v is w, with more rows at its end.
Longer(v, w) ==
    /\ w \in Seq(RowSet) /\ v \in Seq(RowSet) /\ Len(w) <= Len(v)
    /\ \A i \in 1 .. Len(w) : v[i] = w[i]

\* A row that may be at place j of w.
Fits(w, j) ==
    /\ ~Unlimited(w[j]) => \A i \in 1 .. Len(w) : i < j => ~Blocks(w[i], w[j])
    /\ Unlimited(w[j]) =>
           \E i \in 1 .. Len(w) : i < j /\ w[i] = Redeems!Row(w[j].code, w[j].type, None)

(* Rows are added to orderly ones.                                         *)
LEMMA OrderlyMore ==
    ASSUME NEW w, NEW v, Longer(v, w), Orderly(w), \A j \in Len(w) + 1 .. Len(v) : Fits(v, j)
    PROVE  Orderly(v)
<1>1. /\ \A j \in 1 .. Len(v) : j \in 1 .. Len(w) \/ j \in Len(w) + 1 .. Len(v)
      /\ \A j \in 1 .. Len(w) : j \in 1 .. Len(v)
      /\ \A i \in 1 .. Len(v), j \in 1 .. Len(w) : i < j => i \in 1 .. Len(w)
  BY DEF Longer
<1>2. ASSUME NEW j \in 1 .. Len(v) PROVE Fits(v, j)
  <2>1. CASE j \in Len(w) + 1 .. Len(v)
    BY Zenon, <2>1
  <2>2. CASE j \in 1 .. Len(w)
    <3>1. v[j] = w[j]
      BY Zenon, <2>2 DEF Longer
    <3>2. ASSUME NEW i \in 1 .. Len(v), i < j, ~Unlimited(v[j]) PROVE ~Blocks(v[i], v[j])
      <4>1. i \in 1 .. Len(w) /\ v[i] = w[i]
        BY Zenon, <1>1, <2>2, <3>2 DEF Longer
      <4> QED
        BY Zenon, <2>2, <3>1, <3>2, <4>1 DEF Orderly
    <3>3. ASSUME Unlimited(v[j])
          PROVE  \E i \in 1 .. Len(v) : i < j /\ v[i] = Redeems!Row(v[j].code, v[j].type, None)
      <4>1. PICK i \in 1 .. Len(w) : i < j /\ w[i] = Redeems!Row(w[j].code, w[j].type, None)
        BY Zenon, <2>2, <3>1, <3>3 DEF Orderly
      <4> QED
        BY Zenon, <1>1, <3>1, <4>1 DEF Longer
    <3> QED
      BY Zenon, <3>2, <3>3 DEF Fits
  <2> QED
    BY Zenon, <1>1, <2>1, <2>2
<1> QED
  BY Zenon, <1>2 DEF Orderly, Fits

(* What a memory has of rows, it has of the first ones of longer rows.     *)
LEMMA HasFirst ==
    ASSUME NEW w, NEW v, NEW m, Longer(v, w), Has(m, w, Len(w))
    PROVE  Has(m, v, Len(w))
<1>1. \A t : UsesOf(v, Len(w), t) = UsesOf(w, Len(w), t)
  BY Zenon DEF Longer, UsesOf
<1>2. UsesCounted(m, v, Len(w))
  BY Zenon, <1>1 DEF Has, UsesCounted
<1>3. UnusedRead(m, v, Len(w)) /\ UnusedFrom(m, v, Len(w))
  BY Zenon DEF Longer, Has, UnusedRead, UnusedFrom
<1>4. UsesRead(m, v, Len(w))
  BY Zenon DEF Longer, Has, UsesRead
<1> QED
  BY Zenon, <1>2, <1>3, <1>4 DEF Has

(* Rows of uses, and of codes that are never used up, stay.                *)
LEMMA RowsStay ==
    ASSUME Longer(rows', rows), PaidSaved, MadeSaved
    PROVE  /\ paid' = paid => PaidSaved'
           /\ made' = made => MadeSaved'
<1>1. \A j \in 1 .. Len(rows) : j \in 1 .. Len(rows')
  BY DEF Longer
<1>2. ASSUME paid' = paid, NEW g \in Redeems!Groups \ {Redeems!Unchecked}, NEW a \in Accounts,
             paid'[<<g, a>>] # 0
      PROVE  \E i \in 1 .. Len(rows') : rows'[i].account = a /\ Redeems!Group(rows'[i].type) = g
  <2>1. PICK i \in 1 .. Len(rows) : rows[i].account = a /\ Redeems!Group(rows[i].type) = g
    BY Zenon, <1>2 DEF PaidSaved
  <2> QED
    BY Zenon, <1>1, <2>1 DEF Longer
<1>3. ASSUME made' = made, NEW c \in Codes, NEW t \in Types,
             Redeems!Group(t) < 0, made'[<<c, t>>] # 0
      PROVE  \E i \in 1 .. Len(rows') : rows'[i] = Redeems!Row(c, t, None)
  <2>1. PICK i \in 1 .. Len(rows) : rows[i] = Redeems!Row(c, t, None)
    BY Zenon, <1>3 DEF MadeSaved
  <2> QED
    BY Zenon, <1>1, <2>1 DEF Longer
<1> QED
  BY Zenon, <1>2, <1>3 DEF PaidSaved, MadeSaved

(* A code that AddCodeN takes is not blocked by a row.                     *)
LEMMA UnknownFits ==
    ASSUME NEW w, NEW k, NEW m, Has(m, w, k), NEW i \in 1 .. k, w[i] \in RowSet,
           NEW c, NEW t, ~Redeems!Known(m, c, t)
    PROVE  ~Blocks(w[i], Redeems!Row(c, t, None))
<1> DEFINE v == Redeems!Row(c, t, None)
<1>1. v.code = c /\ v.type = t
  BY DEF Redeems!Row
<1>2. w[i].type # None
  <2>1. w[i].type \in Types
    BY Zenon, RowIs
  <2> QED
    BY Zenon, <2>1, RedeemAssumption
<1> HIDE DEF v
<1>3. SUFFICES ASSUME Blocks(w[i], v) PROVE FALSE
  BY Zenon DEF v
<1>4. m.unused[c] = None /\ w[i].code = c
  BY Zenon, <1>1, <1>3 DEF Blocks, Redeems!Known
<1>5. w[i].account # None
  BY Zenon, <1>2, <1>4 DEF Has, UnusedRead
<1>6. Marks(w[i]) /\ Redeems!Group(t) >= 0
  BY Zenon, <1>1, <1>3, <1>5 DEF Blocks
<1>7. m.used[c] # None
  BY Zenon, <1>2, <1>4, <1>6 DEF Has, UsesRead
<1> QED
  BY Zenon, <1>6, <1>7 DEF Redeems!Known

(* AddCodeN keeps the invariant: the codes it adds are in no map, so a     *)
(* load does not pass over their rows.                                     *)
LEMMA AddCodeNKeeps ==
    ASSUME RInv, ~lost, NEW t \in Types, NEW codes \in Redeems!Drawn, Redeems!AddCodeN(t, codes)
    PROVE  RInv'
<1>1. PICK n \in 1 .. Len(codes), committed \in BOOLEAN :
        LET added == {codes[i] : i \in 1 .. n}
        IN  /\ \A i \in 1 .. n : ~Redeems!Known(r, codes[i], t)
            /\ r' = Redeems!Unused(r, added, t)
            /\ IF r.inited /\ committed
               THEN /\ rows' = rows \o [i \in 1 .. n |-> Redeems!Row(codes[i], t, None)]
                    /\ unsaved' = unsaved
               ELSE unsaved' = TRUE /\ rows' = rows
            /\ made' = [x \in Redeems!Goods |->
                          IF x[1] \in added /\ x[2] = t THEN made[x] + 1 ELSE made[x]]
  BY Zenon DEF Redeems!AddCodeN
<1> DEFINE added == {codes[i] : i \in 1 .. n}
           new == [i \in 1 .. n |-> Redeems!Row(codes[i], t, None)]
<1>2. /\ t \in r.configs /\ dbTypes' = dbTypes /\ grants' = grants /\ paid' = paid
      /\ lost' = lost /\ cut' = cut
  BY Zenon DEF Redeems!AddCodeN
<1>3. /\ n \in Nat /\ \A i \in 1 .. n : codes[i] \in Codes
      /\ \A i, j \in 1 .. n : codes[i] = codes[j] => i = j
  <2>1. PICK k \in 1 .. 2 : codes \in [1 .. k -> Codes]
    BY Zenon DEF Redeems!Drawn
  <2>2. Len(codes) = k /\ 1 .. n \subseteq 1 .. k
    BY <2>1
  <2>3. \A i, j \in 1 .. k : codes[i] = codes[j] => i = j
    BY Zenon, <2>1 DEF Redeems!Drawn, Redeems!IsInjective
  <2> QED
    BY <2>1, <2>2, <2>3
<1>4. /\ r \in Memories /\ Tallied(r) /\ rows \in Seq(RowSet)
      /\ made \in [Redeems!Goods -> Nat] /\ grants \in [Redeems!Goods -> Nat]
  BY Zenon DEF RInv, RTyped
<1>5. added \in SUBSET Codes /\ \A c \in added : r.unused[c] = None
  <2>1. \A i \in 1 .. n : r.unused[codes[i]] = None
    <3>1. \A i \in 1 .. n : ~Redeems!Known(r, codes[i], t)
      BY Zenon, <1>1
    <3> QED
      BY Zenon, <3>1 DEF Redeems!Known
  <2>2. added \in SUBSET Codes
    BY Zenon, <1>3
  <2>3. ASSUME NEW c \in added PROVE r.unused[c] = None
    <3>1. PICK i \in 1 .. n : c = codes[i]
      BY Zenon
    <3> QED
      BY Zenon, <2>1, <3>1
  <2> QED
    BY Zenon, <2>2, <2>3
<1>6. MoreUnused(r', r, added, t)
  <2> HIDE DEF added
  <2>1. r' = Redeems!Unused(r, added, t)
    BY Zenon, <1>1 DEF added
  <2> QED
    BY Zenon, <1>2, <1>4, <1>5, <2>1, UnusedIs
<1>7. \/ rows' = rows \o new /\ unsaved' = unsaved
      \/ rows' = rows /\ unsaved' = TRUE
  BY Zenon, <1>1
<1>8. /\ made' \in [Redeems!Goods -> Nat]
      /\ \A c \in Codes, s \in Types :
            made'[<<c, s>>] = IF c \in added /\ s = t THEN made[<<c, s>>] + 1 ELSE made[<<c, s>>]
  <2>1. made' = [x \in Redeems!Goods |->
                   IF x[1] \in added /\ x[2] = t THEN made[x] + 1 ELSE made[x]]
    BY Zenon, <1>1
  <2> HIDE DEF added
  <2>2. made' \in [Redeems!Goods -> Nat]
    BY <1>4, <2>1
  <2>3. ASSUME NEW c \in Codes, NEW s \in Types
        PROVE  made'[<<c, s>>] = IF c \in added /\ s = t THEN made[<<c, s>>] + 1 ELSE made[<<c, s>>]
    BY <2>1 DEF Redeems!Goods
  <2> QED
    BY Zenon, <2>2, <2>3
<1>9. /\ Longer(rows \o new, rows)
      /\ Len(rows \o new) = Len(rows) + n
      /\ \A j \in Len(rows) + 1 .. Len(rows) + n :
            /\ (rows \o new)[j] = Redeems!Row(codes[j - Len(rows)], t, None)
            /\ j - Len(rows) \in 1 .. n
  <2>1. \A i \in 1 .. n : Redeems!Row(codes[i], t, None) \in RowSet
    BY <1>3 DEF RowSet, Redeems!Row
  <2>2. new \in Seq(RowSet) /\ Len(new) = n
    BY <1>3, <2>1
  <2>3. \A i \in 1 .. n : new[i] = Redeems!Row(codes[i], t, None)
    BY Zenon
  <2> HIDE DEF new
  <2>4. Longer(rows \o new, rows)
    <3>1. Len(rows) <= Len(rows) + n
      BY <1>3, <1>4
    <3> QED
      BY Zenon, <1>4, <2>2, <3>1, ConcatIs DEF Longer
  <2>5. Len(rows \o new) = Len(rows) + n
    BY Zenon, <1>4, <2>2, ConcatIs
  <2>6. ASSUME NEW j \in Len(rows) + 1 .. Len(rows) + n
        PROVE  (rows \o new)[j] = new[j - Len(rows)] /\ j - Len(rows) \in 1 .. n
    <3>1. j - Len(rows) \in 1 .. n
      BY <1>3, <1>4
    <3> QED
      BY Zenon, <1>4, <2>2, <3>1, ConcatIs
  <2> QED
    BY Zenon, <2>3, <2>4, <2>5, <2>6
<1>10. RTyped'
  <2>1. rows' \in Seq(RowSet)
    BY Zenon, <1>4, <1>7, <1>9 DEF Longer
  <2>2. unsaved' \in BOOLEAN
    BY Zenon, <1>7 DEF RInv, RTyped
  <2> QED
    BY Zenon, <1>2, <1>6, <1>8, <2>1, <2>2 DEF RInv, RTyped, MoreUnused
<1>11. Payable'
  <2> SUFFICES ASSUME ~lost' PROVE Payable'
    BY Zenon DEF Payable
  <2> HIDE DEF added, new
  <2>1. /\ \A x \in Codes \X Redeems!Limited : grants[x] <= made[x]
        /\ \A c \in Codes : r.unused[c] \in Redeems!Limited =>
               grants[<<c, r.unused[c]>>] < made[<<c, r.unused[c]>>]
    BY Zenon DEF RInv, Payable
  <2>2. \A c \in Codes, s \in Types :
          /\ grants[<<c, s>>] \in Nat /\ made[<<c, s>>] \in Nat
          /\ made[<<c, s>>] <= made'[<<c, s>>]
          /\ c \in added /\ s = t => made[<<c, s>>] < made'[<<c, s>>]
    <3>1. ASSUME NEW c \in Codes, NEW s \in Types
          PROVE  grants[<<c, s>>] \in Nat /\ made[<<c, s>>] \in Nat
      BY <1>4 DEF Redeems!Goods
    <3>2. ASSUME NEW c \in Codes, NEW s \in Types
          PROVE  /\ made[<<c, s>>] <= made'[<<c, s>>]
                 /\ c \in added /\ s = t => made[<<c, s>>] < made'[<<c, s>>]
      BY <1>8, <3>1
    <3> QED
      BY Zenon, <3>1, <3>2
  <2>3. Redeems!Limited \subseteq Types
    BY Zenon DEF Redeems!Limited
  <2>4. ASSUME NEW c \in Codes, NEW s \in Redeems!Limited
        PROVE  /\ grants[<<c, s>>] <= made[<<c, s>>]
               /\ grants[<<c, s>>] <= made'[<<c, s>>]
               /\ grants[<<c, s>>] < made[<<c, s>>] => grants[<<c, s>>] < made'[<<c, s>>]
               /\ c \in added /\ s = t => grants[<<c, s>>] < made'[<<c, s>>]
    <3>1. grants[<<c, s>>] <= made[<<c, s>>] /\ s \in Types
      BY Zenon, <2>1, <2>3
    <3>2. made'[<<c, s>>] \in Nat
      BY <1>8, <3>1 DEF Redeems!Goods
    <3> QED
      BY <2>2, <3>1, <3>2
  <2>5. \A x \in Codes \X Redeems!Limited : grants'[x] <= made'[x]
    <3>1. \A x \in Codes \X Redeems!Limited :
            x[1] \in Codes /\ x[2] \in Redeems!Limited /\ x = <<x[1], x[2]>>
      OBVIOUS
    <3> QED
      BY Zenon, <1>2, <2>4, <3>1
  <2>6. ASSUME NEW c \in Codes, r'.unused[c] \in Redeems!Limited
        PROVE  grants'[<<c, r'.unused[c]>>] < made'[<<c, r'.unused[c]>>]
    <3>1. r'.unused[c] = IF c \in added THEN t ELSE r.unused[c]
      BY Zenon, <1>6 DEF MoreUnused
    <3>2. CASE c \in added
      BY Zenon, <1>2, <2>4, <2>6, <3>1, <3>2
    <3>3. CASE c \notin added
      BY Zenon, <1>2, <2>1, <2>4, <2>6, <3>1, <3>3
    <3> QED
      BY Zenon, <3>2, <3>3
  <2>7. ASSUME ~unsaved', NEW i \in 1 .. Len(rows'), rows'[i].account = None,
               rows'[i].type \in Redeems!Limited
        PROVE  grants'[<<rows'[i].code, rows'[i].type>>] < made'[<<rows'[i].code, rows'[i].type>>]
    <3>1. rows' = rows \o new /\ unsaved' = unsaved
      BY Zenon, <1>7, <2>7
    <3>2. i \in 1 .. Len(rows) \/ i \in Len(rows) + 1 .. Len(rows) + n
      BY <1>3, <1>4, <1>9, <3>1
    <3>3. CASE i \in 1 .. Len(rows)
      <4>1. rows'[i] = rows[i] /\ rows[i].code \in Codes
        <5>1. rows[i] \in RowSet
          BY <1>4, <3>3
        <5> QED
          BY Zenon, <1>9, <3>1, <3>3, <5>1, RowIs DEF Longer
      <4>2. grants[<<rows[i].code, rows[i].type>>] < made[<<rows[i].code, rows[i].type>>]
        BY Zenon, <2>7, <3>1, <3>3, <4>1 DEF RInv, Payable
      <4> QED
        BY Zenon, <1>2, <2>4, <2>7, <4>1, <4>2
    <3>4. CASE i \in Len(rows) + 1 .. Len(rows) + n
      <4>1. /\ rows'[i] = Redeems!Row(codes[i - Len(rows)], t, None)
            /\ codes[i - Len(rows)] \in added
        BY Zenon, <1>9, <3>1, <3>4 DEF added
      <4>2. rows'[i].code \in added /\ rows'[i].type = t
        BY <4>1 DEF Redeems!Row
      <4> QED
        BY Zenon, <1>2, <1>5, <2>4, <2>7, <4>2
    <3> QED
      BY Zenon, <3>2, <3>3, <3>4
  <2> QED
    BY Zenon, <2>5, <2>6, <2>7 DEF Payable
<1>12. Kept'
  BY Zenon, <1>2, <1>6 DEF RInv, Kept, MoreUnused
<1>13. Saved'
  <2> SUFFICES ASSUME ~lost', ~cut', ~unsaved' PROVE Saved'
    BY Zenon DEF Saved
  <2>1. rows' = rows \o new /\ unsaved' = unsaved
    BY Zenon, <1>7
  <2>2. ~lost /\ ~cut /\ ~unsaved
    BY Zenon, <1>2, <2>1
  <2>3. TypesSaved /\ Orderly(rows) /\ Has(r, rows, Len(rows)) /\ PaidSaved /\ MadeSaved
    BY Zenon, <2>2 DEF RInv, Saved
  <2>4. /\ Longer(rows', rows) /\ Len(rows') = Len(rows) + n
        /\ \A j \in Len(rows) + 1 .. Len(rows') :
              /\ rows'[j] = Redeems!Row(codes[j - Len(rows)], t, None)
              /\ j - Len(rows) \in 1 .. n
        /\ \A i \in 1 .. n : rows'[Len(rows) + i] = Redeems!Row(codes[i], t, None)
        /\ \A i \in 1 .. n : Len(rows) + i \in Len(rows) + 1 .. Len(rows')
        /\ \A j \in 1 .. Len(rows') : j \in 1 .. Len(rows) \/ j \in Len(rows) + 1 .. Len(rows')
        /\ Len(rows) \in Nat /\ Len(rows') \in Nat
        /\ \A j \in Len(rows) + 1 .. Len(rows') : j \in 1 .. Len(rows')
    <3>1. /\ Longer(rows', rows) /\ Len(rows') = Len(rows) + n
          /\ \A j \in Len(rows) + 1 .. Len(rows') :
                /\ rows'[j] = Redeems!Row(codes[j - Len(rows)], t, None)
                /\ j - Len(rows) \in 1 .. n
      BY Zenon, <1>9, <2>1
    <3>2. Len(rows) \in Nat /\ Len(rows') \in Nat
      BY <1>3, <1>4, <3>1
    <3>3. \A i \in 1 .. n : Len(rows) + i \in Len(rows) + 1 .. Len(rows') /\ (Len(rows) + i) - Len(rows) = i
      BY <1>3, <3>1, <3>2
    <3>4. /\ \A j \in 1 .. Len(rows') : j \in 1 .. Len(rows) \/ j \in Len(rows) + 1 .. Len(rows')
          /\ \A j \in Len(rows) + 1 .. Len(rows') : j \in 1 .. Len(rows')
      BY <3>2
    <3>5. ASSUME NEW i \in 1 .. n
          PROVE  rows'[Len(rows) + i] = Redeems!Row(codes[i], t, None)
      <4> DEFINE j == Len(rows) + i
      <4>1. j \in Len(rows) + 1 .. Len(rows') /\ j - Len(rows) = i
        BY Zenon, <3>3
      <4> HIDE DEF j
      <4>2. rows'[j] = Redeems!Row(codes[i], t, None)
        BY Zenon, <3>1, <4>1
      <4> QED
        BY Zenon, <4>2 DEF j
    <3> QED
      BY Zenon, <3>1, <3>2, <3>3, <3>4, <3>5
  <2> HIDE DEF new
  <2>5. RowsAdded(rows', Len(rows), Len(rows'), added, t)
    <3>1. Len(rows) <= Len(rows')
      BY Zenon, <2>4 DEF Longer
    <3> QED
      BY Zenon, <2>4, <3>1 DEF RowsAdded
  <2>6. \A i \in 1 .. Len(rows) : rows[i] \in RowSet /\ rows'[i] = rows[i]
    <3>1. \A i \in 1 .. Len(rows) : rows[i] \in RowSet
      BY <1>4
    <3> QED
      BY Zenon, <2>4, <3>1 DEF Longer
  <2>7. Has(r', rows', Len(rows'))
    <3>1. Has(r, rows', Len(rows))
      BY Zenon, <2>3, <2>4, HasFirst
    <3>2. \A i \in 1 .. Len(rows) : rows'[i] \in RowSet
      BY Zenon, <2>6
    <3> HIDE DEF added
    <3> QED
      BY <1>5, <1>6, <2>4, <2>5, <3>1, <3>2, HasUnused
  <2>8. Orderly(rows')
    <3>1. ASSUME NEW j \in Len(rows) + 1 .. Len(rows') PROVE Fits(rows', j)
      <4> DEFINE c == codes[j - Len(rows)]
      <4>1. rows'[j] = Redeems!Row(c, t, None) /\ ~Redeems!Known(r, c, t)
        BY Zenon, <1>1, <2>4
      <4>2. rows'[j].code = c /\ ~Unlimited(rows'[j])
        BY <4>1 DEF Unlimited, Redeems!Row
      <4>3. ASSUME NEW i \in 1 .. Len(rows'), i < j PROVE ~Blocks(rows'[i], rows'[j])
        <5>1. CASE i \in 1 .. Len(rows)
          BY Zenon, <2>3, <2>6, <4>1, <5>1, UnknownFits
        <5>2. CASE i \in Len(rows) + 1 .. Len(rows')
          <6>1. rows'[i].code = codes[i - Len(rows)]
            <7>1. rows'[i] = Redeems!Row(codes[i - Len(rows)], t, None)
              BY Zenon, <2>4, <5>2
            <7> QED
              BY <7>1 DEF Redeems!Row
          <6>2. i - Len(rows) # j - Len(rows)
            BY <2>4, <4>3
          <6>3. rows'[i].code # rows'[j].code
            BY Zenon, <1>3, <2>4, <4>2, <5>2, <6>1, <6>2
          <6> QED
            BY Zenon, <6>3 DEF Blocks
        <5> QED
          BY Zenon, <2>4, <5>1, <5>2
      <4> QED
        BY Zenon, <4>2, <4>3 DEF Fits
    <3> QED
      BY Zenon, <2>3, <2>4, <3>1, OrderlyMore
  <2>9. TypesSaved'
    <3>1. r'.configs = r.configs
      BY Zenon, <1>6 DEF MoreUnused
    <3>2. ASSUME NEW i \in 1 .. Len(rows') PROVE rows'[i].type \in r.configs
      <4>1. CASE i \in 1 .. Len(rows)
        BY Zenon, <2>3, <2>6, <4>1 DEF TypesSaved
      <4>2. CASE i \in Len(rows) + 1 .. Len(rows')
        <5>1. rows'[i] = Redeems!Row(codes[i - Len(rows)], t, None)
          BY Zenon, <2>4, <4>2
        <5> QED
          BY <1>2, <5>1 DEF Redeems!Row
      <4> QED
        BY Zenon, <2>4, <4>1, <4>2
    <3> QED
      BY Zenon, <1>2, <2>3, <3>1, <3>2 DEF TypesSaved
  <2>10. PaidSaved'
    BY Zenon, <1>2, <2>3, <2>4, RowsStay
  <2>11. MadeSaved'
    <3> SUFFICES ASSUME NEW c \in Codes, NEW s \in Types, Redeems!Group(s) < 0, made'[<<c, s>>] # 0
                 PROVE  \E i \in 1 .. Len(rows') : rows'[i] = Redeems!Row(c, s, None)
      BY Zenon DEF MadeSaved
    <3>1. CASE c \in added /\ s = t
      BY Zenon, <2>4, <3>1
    <3>2. CASE ~(c \in added /\ s = t)
      <4>1. made[<<c, s>>] # 0
        BY Zenon, <1>8, <3>2
      <4>2. PICK i \in 1 .. Len(rows) : rows[i] = Redeems!Row(c, s, None)
        BY Zenon, <2>3, <4>1 DEF MadeSaved
      <4>3. i \in 1 .. Len(rows')
        BY <2>4
      <4> QED
        BY Zenon, <2>6, <4>2, <4>3
    <3> QED
      BY Zenon, <3>1, <3>2
  <2> QED
    BY Zenon, <2>7, <2>8, <2>9, <2>10, <2>11 DEF Saved
<1> QED
  BY Zenon, <1>10, <1>11, <1>12, <1>13 DEF RInv

\* The memory u is r, after a use of code c of type t by account a.
Taken(u, c, t, a) ==
    /\ u \in Memories /\ Tallied(u) /\ u.configs = r.configs /\ u.inited = r.inited
    /\ \A d \in Codes :
           /\ u.unused[d] = IF d = c /\ ~(Redeems!Group(t) < 0) THEN None ELSE r.unused[d]
           /\ u.used[d] = IF d = c /\ ~(Redeems!Group(t) < 0) THEN a ELSE r.used[d]
    /\ \A g \in Redeems!Groups :
           u.accounts[g] = IF g = Redeems!Group(t) /\ g # Redeems!Unchecked
                           THEN r.accounts[g] \cup {a} ELSE r.accounts[g]
    /\ \A s \in Types : u.nUsed[s] = IF s = t THEN r.nUsed[s] + 1 ELSE r.nUsed[s]

(* Use, in memory.                                                         *)
LEMMA TakenIs ==
    ASSUME r \in Memories, Tallied(r), NEW c \in Codes, NEW t, t = r.unused[c], t # None,
           NEW a \in Accounts, NEW u, u = Redeems!UsedInMemory(c, t, a)
    PROVE  Taken(u, c, t, a) /\ t \in Types /\ t \in r.configs
<1>1. /\ r = [configs |-> r.configs, inited |-> r.inited, unused |-> r.unused,
              used |-> r.used, accounts |-> r.accounts, nUsed |-> r.nUsed,
              nUnused |-> r.nUnused]
      /\ r.configs \in SUBSET Types /\ r.unused \in [Codes -> Types \cup {None}]
      /\ r.used \in [Codes -> Accounts \cup {None}] /\ r.inited \in BOOLEAN
      /\ r.accounts \in [Redeems!Groups -> SUBSET Accounts]
      /\ r.nUsed \in [Types -> Nat] /\ r.nUnused \in [Types -> Nat]
  BY DEF Memories
<1>2. t \in r.configs /\ t \in Types
  BY Zenon, <1>1 DEF Tallied
<1> DEFINE g0 == Redeems!Group(t)
           lim == ~(g0 < 0)
           left == CodesOf(r, t) \ {c}
<1>3. g0 \in Redeems!Groups
  BY Zenon, <1>2, GroupIs
<1>4. /\ IsFiniteSet(left) /\ Cardinality(left) \in Nat
      /\ Cardinality(left) = r.nUnused[t] - 1
  <2>1. IsFiniteSet(CodesOf(r, t)) /\ c \in CodesOf(r, t)
    BY Zenon, RedeemAssumption, FS_Subset DEF CodesOf
  <2>2. IsFiniteSet(left) /\ Cardinality(left) = Cardinality(CodesOf(r, t)) - 1
    BY Zenon, <2>1, FS_RemoveElement
  <2>3. Cardinality(left) \in Nat
    BY Zenon, <2>2, FS_CardinalityType
  <2> QED
    BY Zenon, <1>2, <2>2, <2>3 DEF Tallied
<1> HIDE DEF left
<1> DEFINE un == IF lim THEN [r.unused EXCEPT ![c] = None] ELSE r.unused
           us == IF lim THEN [r.used EXCEPT ![c] = a] ELSE r.used
           ac == IF g0 = Redeems!Unchecked THEN r.accounts
                 ELSE [r.accounts EXCEPT ![g0] = r.accounts[g0] \cup {a}]
           nu == [r.nUsed EXCEPT ![t] = r.nUsed[t] + 1]
           nn == IF lim THEN [r.nUnused EXCEPT ![t] = r.nUnused[t] - 1] ELSE r.nUnused
<1>5. u = [configs |-> r.configs, inited |-> r.inited, unused |-> un, used |-> us,
           accounts |-> ac, nUsed |-> nu, nUnused |-> nn]
  <2>1. CASE g0 < 0 /\ g0 = Redeems!Unchecked
    BY <1>1, <2>1 DEF Redeems!UsedInMemory, Redeems!Counted
  <2>2. CASE g0 < 0 /\ g0 # Redeems!Unchecked
    BY <1>1, <2>2 DEF Redeems!UsedInMemory, Redeems!Counted
  <2>3. CASE ~(g0 < 0) /\ g0 = Redeems!Unchecked
    BY <1>1, <2>3 DEF Redeems!UsedInMemory, Redeems!Counted
  <2>4. CASE ~(g0 < 0) /\ g0 # Redeems!Unchecked
    BY <1>1, <2>4 DEF Redeems!UsedInMemory, Redeems!Counted
  <2> QED
    BY Zenon, <2>1, <2>2, <2>3, <2>4
<1>6. /\ un \in [Codes -> Types \cup {None}] /\ us \in [Codes -> Accounts \cup {None}]
      /\ ac \in [Redeems!Groups -> SUBSET Accounts]
      /\ nu \in [Types -> Nat] /\ nn \in [Types -> Nat]
  <2>1. un \in [Codes -> Types \cup {None}] /\ us \in [Codes -> Accounts \cup {None}]
    BY Zenon, <1>1
  <2>2. ac \in [Redeems!Groups -> SUBSET Accounts]
    BY Zenon, <1>1, <1>3
  <2>3. nu \in [Types -> Nat] /\ nn \in [Types -> Nat]
    BY <1>1, <1>2, <1>4
  <2> QED
    BY Zenon, <2>1, <2>2, <2>3
<1>7. /\ \A d \in Codes : /\ un[d] = IF d = c /\ lim THEN None ELSE r.unused[d]
                          /\ us[d] = IF d = c /\ lim THEN a ELSE r.used[d]
      /\ \A g \in Redeems!Groups :
             ac[g] = IF g = g0 /\ g # Redeems!Unchecked THEN r.accounts[g] \cup {a} ELSE r.accounts[g]
      /\ \A s \in Types : /\ nu[s] = IF s = t THEN r.nUsed[s] + 1 ELSE r.nUsed[s]
                          /\ nn[s] = IF s = t /\ lim THEN r.nUnused[s] - 1 ELSE r.nUnused[s]
  <2>1. \A d \in Codes : /\ un[d] = IF d = c /\ lim THEN None ELSE r.unused[d]
                         /\ us[d] = IF d = c /\ lim THEN a ELSE r.used[d]
    BY Zenon, <1>1
  <2>2. \A g \in Redeems!Groups :
          ac[g] = IF g = g0 /\ g # Redeems!Unchecked THEN r.accounts[g] \cup {a} ELSE r.accounts[g]
    BY Zenon, <1>1, <1>3
  <2>3. \A s \in Types : /\ nu[s] = IF s = t THEN r.nUsed[s] + 1 ELSE r.nUsed[s]
                         /\ nn[s] = IF s = t /\ lim THEN r.nUnused[s] - 1 ELSE r.nUnused[s]
    BY Zenon, <1>1, <1>2
  <2> QED
    BY Zenon, <2>1, <2>2, <2>3
<1> HIDE DEF un, us, ac, nu, nn
<1>8. u \in Memories
  <2>1. AreMaps(r.configs, r.inited, un, us, ac, nu, nn)
    BY Zenon, <1>1, <1>6 DEF AreMaps
  <2> QED
    BY Zenon, <1>5, <2>1, MemoryIs
<1>9. /\ u.configs = r.configs /\ u.inited = r.inited /\ u.unused = un /\ u.used = us
      /\ u.accounts = ac /\ u.nUsed = nu /\ u.nUnused = nn
  BY <1>5
<1>10. Tallied(u)
  <2>1. \A d \in Codes : u.unused[d] \in u.configs \cup {None}
    BY Zenon, <1>7, <1>9 DEF Tallied
  <2>2. ASSUME NEW s \in Types PROVE u.nUnused[s] = Cardinality(CodesOf(u, s))
    <3>0. r.nUnused[s] = Cardinality(CodesOf(r, s)) /\ s # None
      BY Zenon, RedeemAssumption DEF Tallied
    <3>1. CASE s = t /\ lim
      <4>1. CodesOf(u, s) = left
        BY <1>7, <1>9, <3>0, <3>1 DEF CodesOf, left
      <4> QED
        BY Zenon, <1>4, <1>7, <1>9, <3>1, <4>1
    <3>2. CASE ~(s = t /\ lim)
      <4>1. \A d \in Codes : u.unused[d] = s <=> r.unused[d] = s
        BY Zenon, <1>7, <1>9, <3>0, <3>2
      <4>2. CodesOf(u, s) = CodesOf(r, s)
        BY Zenon, <4>1 DEF CodesOf
      <4>3. nn[s] = r.nUnused[s]
        BY Zenon, <1>7, <3>2
      <4> QED
        BY Zenon, <1>9, <3>0, <4>2, <4>3
    <3> QED
      BY Zenon, <3>1, <3>2
  <2> QED
    BY Zenon, <2>1, <2>2 DEF Tallied
<1> QED
  BY Zenon, <1>2, <1>7, <1>8, <1>9, <1>10 DEF Taken

\* The rows v are w after the update of those of code c.
Marked(v, w, c, a) ==
    /\ v \in Seq(RowSet) /\ Len(v) = Len(w)
    /\ \A i \in 1 .. Len(w) :
           /\ v[i].code = w[i].code /\ v[i].type = w[i].type
           /\ w[i].code = c => v[i].account = a
           /\ w[i].code # c => v[i] = w[i]

(* Use, in the table: the update of a limited code.                        *)
LEMMA MarkedIs ==
    ASSUME rows \in Seq(RowSet), NEW c, NEW t, NEW a \in Accounts, ~(Redeems!Group(t) < 0),
           NEW v, v = Redeems!UsedInTable(c, t, a)
    PROVE  Marked(v, rows, c, a)
<1>1. v = [i \in 1 .. Len(rows) |->
             IF rows[i].code = c THEN [rows[i] EXCEPT !.account = a] ELSE rows[i]]
  BY Zenon DEF Redeems!UsedInTable
<1>2. ASSUME NEW i \in 1 .. Len(rows)
      PROVE  /\ v[i] \in RowSet
             /\ v[i].code = rows[i].code /\ v[i].type = rows[i].type
             /\ rows[i].code = c => v[i].account = a
             /\ rows[i].code # c => v[i] = rows[i]
  <2>1. rows[i] \in RowSet
    OBVIOUS
  <2>2. v[i] = IF rows[i].code = c THEN [rows[i] EXCEPT !.account = a] ELSE rows[i]
    BY Zenon, <1>1
  <2> QED
    BY <2>1, <2>2 DEF RowSet
<1>3. v \in Seq(RowSet) /\ Len(v) = Len(rows)
  <2>1. v \in [1 .. Len(rows) -> RowSet] /\ Len(rows) \in Nat
    BY <1>1, <1>2
  <2> QED
    BY <2>1
<1> QED
  BY Zenon, <1>2, <1>3 DEF Marked

\* Row k is the one of the unused code c of type t; other rows of the code are earlier
\* uses that are not remembered.
Only(w, c, t, k) ==
    /\ k \in 1 .. Len(w) /\ w[k] = Redeems!Row(c, t, None)
    /\ \A j \in 1 .. Len(w) : w[j].code = c /\ j # k =>
           j < k /\ w[j].account # None /\ Redeems!Group(w[j].type) = Redeems!Unchecked

(* There is one row of a limited code that can be used.                    *)
LEMMA OnlyRow ==
    ASSUME NEW w \in Seq(RowSet), Orderly(w), NEW m, Has(m, w, Len(w)), NEW c \in Codes,
           NEW t \in Types, t = m.unused[c], ~(Redeems!Group(t) < 0)
    PROVE  \E k : Only(w, c, t, k)
<1>1. t # None /\ Redeems!Group(t) >= 0
  <2>1. t # None /\ Redeems!Group(t) \in Int
    BY Zenon, GroupIs, RedeemAssumption
  <2> QED
    BY <2>1
<1>2. PICK k \in 1 .. Len(w) : w[k] = Redeems!Row(c, t, None)
  BY Zenon, <1>1 DEF Has, UnusedFrom
<1>3. w[k].code = c /\ w[k].type = t /\ w[k].account = None
  BY <1>2 DEF Redeems!Row
<1>4. ~Unlimited(w[k])
  BY Zenon, <1>3 DEF Unlimited
<1>5. ASSUME NEW j \in 1 .. Len(w), w[j].code = c, j # k
      PROVE  j < k /\ w[j].account # None /\ Redeems!Group(w[j].type) = Redeems!Unchecked
  <2>1. j < k \/ k < j
    BY <1>5
  <2>2. w[j].account # None
    <3> SUFFICES ASSUME w[j].account = None PROVE FALSE
      OBVIOUS
    <3>1. ~Unlimited(w[j]) /\ Blocks(w[j], w[k]) /\ Blocks(w[k], w[j])
      BY Zenon, <1>3, <1>5 DEF Unlimited, Blocks
    <3> QED
      BY Zenon, <1>4, <2>1, <3>1 DEF Orderly
  <2>3. j < k
    <3> SUFFICES ASSUME k < j PROVE FALSE
      BY Zenon, <2>1
    <3>1. Blocks(w[k], w[j])
      BY Zenon, <1>3, <1>5 DEF Blocks
    <3>2. Unlimited(w[j])
      BY Zenon, <3>1 DEF Orderly
    <3>3. PICK i \in 1 .. Len(w) : w[i] = Redeems!Row(c, w[j].type, None)
      BY Zenon, <1>5, <3>2 DEF Orderly
    <3>4. w[i].code = c /\ w[i].type = w[j].type /\ w[i].account = None
      BY <3>3 DEF Redeems!Row
    <3>5. i # k
      BY Zenon, <1>3, <3>2, <3>4 DEF Unlimited
    <3>6. i < k \/ k < i
      BY <3>5
    <3>7. ~Unlimited(w[i]) /\ Blocks(w[i], w[k]) /\ Blocks(w[k], w[i])
      BY Zenon, <1>3, <3>4 DEF Unlimited, Blocks
    <3> QED
      BY Zenon, <1>4, <3>6, <3>7 DEF Orderly
  <2>4. ~Blocks(w[j], w[k])
    BY Zenon, <1>4, <2>3 DEF Orderly
  <2>5. Redeems!Group(w[j].type) = Redeems!Unchecked
    BY Zenon, <1>1, <1>3, <1>5, <2>2, <2>4 DEF Blocks, Marks
  <2> QED
    BY Zenon, <2>2, <2>3, <2>5
<1> QED
  BY Zenon, <1>2, <1>5 DEF Only

(* The update leaves the rows orderly.                                     *)
LEMMA OrderlyMarked ==
    ASSUME NEW w \in Seq(RowSet), Orderly(w), NEW c, NEW t \in Types, ~(Redeems!Group(t) < 0),
           NEW k, Only(w, c, t, k), NEW a \in Accounts, NEW v, Marked(v, w, c, a)
    PROVE  Orderly(v)
<1>1. a # None /\ w[k].type = t /\ w[k].code = c /\ Len(v) = Len(w)
  <2>1. w[k].type = t /\ w[k].code = c
    BY DEF Only, Redeems!Row
  <2> QED
    BY Zenon, <2>1, RedeemAssumption DEF Marked
<1>2. ASSUME NEW i \in 1 .. Len(w), w[i].code = c
      PROVE  ~(Redeems!Group(v[i].type) < 0) /\ v[i].account # None
  <2>1. v[i].type = w[i].type /\ v[i].account = a
    BY Zenon, <1>2 DEF Marked
  <2>2. CASE i = k
    BY Zenon, <1>1, <2>1, <2>2
  <2>3. CASE i # k
    <3>1. Redeems!Group(v[i].type) = Redeems!Unchecked
      BY Zenon, <1>2, <2>1, <2>3 DEF Only
    <3> QED
      BY <1>1, <2>1, <3>1 DEF Redeems!Unchecked
  <2> QED
    BY Zenon, <2>2, <2>3
<1>3. ASSUME NEW i \in 1 .. Len(w), NEW j \in 1 .. Len(w), i < j, ~Unlimited(v[j]),
             Blocks(v[i], v[j])
      PROVE  FALSE
  <2>1. w[i].code = w[j].code
    BY Zenon, <1>3 DEF Blocks, Marked
  <2>2. CASE w[j].code # c
    <3>1. v[i] = w[i] /\ v[j] = w[j]
      BY Zenon, <2>1, <2>2 DEF Marked
    <3> QED
      BY Zenon, <1>3, <3>1 DEF Orderly
  <2>3. CASE w[j].code = c
    <3>1. i # k
      <4> SUFFICES ASSUME i = k PROVE FALSE
        OBVIOUS
      <4>1. j # k /\ ~(j < k)
        BY <1>3
      <4> QED
        BY Zenon, <2>3, <4>1 DEF Only
    <3>2. Redeems!Group(v[i].type) = Redeems!Unchecked /\ v[i].account # None
      BY Zenon, <1>2, <2>1, <2>3, <3>1 DEF Only, Marked
    <3> QED
      BY Zenon, <1>3, <3>2 DEF Blocks, Marks
  <2> QED
    BY Zenon, <2>2, <2>3
<1>4. ASSUME NEW i \in 1 .. Len(w), Unlimited(v[i])
      PROVE  \E j \in 1 .. Len(w) : j < i /\ v[j] = Redeems!Row(v[i].code, v[i].type, None)
  <2>1. w[i].code # c
    BY Zenon, <1>2, <1>4 DEF Unlimited
  <2>2. v[i] = w[i]
    BY Zenon, <2>1 DEF Marked
  <2>3. PICK j \in 1 .. Len(w) : j < i /\ w[j] = Redeems!Row(w[i].code, w[i].type, None)
    BY Zenon, <1>4, <2>2 DEF Orderly
  <2>4. w[j].code = w[i].code
    BY <2>3 DEF Redeems!Row
  <2>5. v[j] = w[j]
    BY Zenon, <2>1, <2>4 DEF Marked
  <2> QED
    BY Zenon, <2>2, <2>3, <2>5
<1> QED
  BY Zenon, <1>1, <1>3, <1>4 DEF Orderly

(* A use of a limited code is in memory as it is in the table.             *)
LEMMA HasMarked ==
    ASSUME NEW w \in Seq(RowSet), Has(r, w, Len(w)), NEW c \in Codes, NEW t \in Types,
           ~(Redeems!Group(t) < 0), NEW k, Only(w, c, t, k),
           NEW a \in Accounts, NEW v, Marked(v, w, c, a), NEW u, Taken(u, c, t, a)
    PROVE  Has(u, v, Len(v))
<1>1. a # None /\ Len(v) = Len(w) /\ k \in 1 .. Len(w)
  BY Zenon, RedeemAssumption DEF Marked, Only
<1>2. w[k].type = t /\ w[k].code = c /\ w[k].account = None
  BY DEF Only, Redeems!Row
<1>3. /\ u.unused[c] = None /\ u.used[c] = a
      /\ \A d \in Codes : d # c => u.unused[d] = r.unused[d] /\ u.used[d] = r.used[d]
  BY Zenon DEF Taken
<1>4. \A i \in 1 .. Len(w) : /\ w[i].code \in Codes /\ w[i].type \in Types
                             /\ Redeems!Group(w[i].type) \in Redeems!Groups
  <2>1. \A i \in 1 .. Len(w) : w[i] \in RowSet
    OBVIOUS
  <2> QED
    BY Zenon, <2>1, RowIs, GroupIs
<1>5. UnusedRead(u, v, Len(w))
  <2> SUFFICES ASSUME NEW i \in 1 .. Len(w), v[i].account = None
               PROVE  u.unused[v[i].code] = v[i].type
    BY Zenon DEF UnusedRead
  <2>1. w[i].code # c /\ v[i] = w[i]
    BY Zenon, <1>1 DEF Marked
  <2>2. r.unused[w[i].code] = w[i].type
    BY Zenon, <2>1 DEF Has, UnusedRead
  <2> QED
    BY Zenon, <1>3, <1>4, <2>1, <2>2
<1>6. UnusedFrom(u, v, Len(w))
  <2> SUFFICES ASSUME NEW d \in Codes, u.unused[d] # None
               PROVE  \E i \in 1 .. Len(w) : v[i] = Redeems!Row(d, u.unused[d], None)
    BY Zenon DEF UnusedFrom
  <2>1. d # c /\ u.unused[d] = r.unused[d]
    BY Zenon, <1>3
  <2>2. PICK i \in 1 .. Len(w) : w[i] = Redeems!Row(d, u.unused[d], None)
    BY Zenon, <2>1 DEF Has, UnusedFrom
  <2>3. w[i].code = d
    BY <2>2 DEF Redeems!Row
  <2>4. v[i] = w[i]
    BY Zenon, <2>1, <2>3 DEF Marked
  <2> QED
    BY Zenon, <2>2, <2>4
<1>7. UsesRead(u, v, Len(w))
  <2> SUFFICES ASSUME NEW i \in 1 .. Len(w), Marks(v[i])
               PROVE  /\ v[i].account \in u.accounts[Redeems!Group(v[i].type)]
                      /\ Unlimited(v[i]) => u.unused[v[i].code] = v[i].type
                      /\ ~Unlimited(v[i]) => u.used[v[i].code] # None
    BY Zenon DEF UsesRead
  <2>1. v[i].code = w[i].code /\ v[i].type = w[i].type
    BY Zenon DEF Marked
  <2>2. CASE w[i].code = c
    <3>1. i = k
      BY Zenon, <2>1, <2>2 DEF Only, Marks
    <3>2. v[i].account = a /\ v[i].type = t /\ Redeems!Group(t) # Redeems!Unchecked
      BY Zenon, <1>2, <2>1, <2>2, <3>1 DEF Marked, Marks
    <3>3. a \in u.accounts[Redeems!Group(t)]
      BY Zenon, <3>2, GroupIs DEF Taken
    <3>4. ~Unlimited(v[i])
      BY Zenon, <3>2 DEF Unlimited
    <3> QED
      BY Zenon, <1>1, <1>3, <2>1, <2>2, <3>2, <3>3, <3>4
  <2>3. CASE w[i].code # c
    <3>1. v[i] = w[i]
      BY Zenon, <2>3 DEF Marked
    <3>2. /\ w[i].account \in r.accounts[Redeems!Group(w[i].type)]
          /\ Unlimited(w[i]) => r.unused[w[i].code] = w[i].type
          /\ ~Unlimited(w[i]) => r.used[w[i].code] # None
      BY Zenon, <3>1 DEF Has, UsesRead
    <3>3. w[i].account \in u.accounts[Redeems!Group(w[i].type)]
      BY Zenon, <1>4, <3>2 DEF Taken
    <3> QED
      BY Zenon, <1>3, <1>4, <2>3, <3>1, <3>2, <3>3
  <2> QED
    BY Zenon, <2>2, <2>3
<1>8. UsesCounted(u, v, Len(w))
  <2> SUFFICES ASSUME NEW s \in Types
               PROVE  u.nUsed[s] = Cardinality(UsesOf(v, Len(w), s))
    BY Zenon DEF UsesCounted
  <2>1. r.nUsed[s] = Cardinality(UsesOf(w, Len(w), s))
    BY Zenon DEF Has, UsesCounted
  <2>2. \A i \in 1 .. Len(w) : i # k => (v[i].account # None <=> w[i].account # None)
    BY Zenon, <1>1 DEF Only, Marked
  <2>3. \A i \in 1 .. Len(w) : v[i].type = w[i].type
    BY Zenon DEF Marked
  <2>4. v[k].account # None
    BY Zenon, <1>1, <1>2 DEF Marked
  <2>5. CASE s = t
    <3>1. UsesOf(v, Len(w), s) = UsesOf(w, Len(w), s) \cup {k} /\ k \notin UsesOf(w, Len(w), s)
      BY <1>1, <1>2, <2>2, <2>3, <2>4, <2>5 DEF UsesOf
    <3>2. IsFiniteSet(UsesOf(w, Len(w), s))
      <4>1. IsFiniteSet(1 .. Len(w))
        BY FS_Interval
      <4>2. UsesOf(w, Len(w), s) \subseteq 1 .. Len(w)
        BY Zenon DEF UsesOf
      <4> QED
        BY Zenon, <4>1, <4>2, FS_Subset
    <3>3. Cardinality(UsesOf(v, Len(w), s)) = Cardinality(UsesOf(w, Len(w), s)) + 1
      BY Zenon, <3>1, <3>2, FS_AddElement
    <3> QED
      BY Zenon, <2>1, <2>5, <3>3 DEF Taken
  <2>6. CASE s # t
    <3>1. UsesOf(v, Len(w), s) = UsesOf(w, Len(w), s)
      BY <1>2, <2>2, <2>3, <2>6 DEF UsesOf
    <3> QED
      BY Zenon, <2>1, <2>6, <3>1 DEF Taken
  <2> QED
    BY Zenon, <2>5, <2>6
<1> QED
  BY Zenon, <1>1, <1>5, <1>6, <1>7, <1>8 DEF Has

(* A use of a limited code: what the tables say stays what the memory does. *)
LEMMA LimitedSaved ==
    ASSUME rows \in Seq(RowSet), NEW c \in Codes, NEW t \in Types, t = r.unused[c],
           ~(Redeems!Group(t) < 0), NEW a \in Accounts,
           Taken(r', c, t, a), Marked(rows', rows, c, a), dbTypes' = dbTypes, made' = made,
           \A g \in Redeems!Groups, b \in Accounts :
               ~(g = Redeems!Group(t) /\ b = a) => paid'[<<g, b>>] = paid[<<g, b>>],
           TypesSaved, Orderly(rows), Has(r, rows, Len(rows)), PaidSaved, MadeSaved
    PROVE  TypesSaved' /\ Orderly(rows') /\ Has(r', rows', Len(rows')) /\ PaidSaved' /\ MadeSaved'
<1>1. PICK k : Only(rows, c, t, k)
  BY Zenon, OnlyRow
<1>2. Orderly(rows')
  BY Zenon, <1>1, OrderlyMarked
<1>3. Has(r', rows', Len(rows'))
  BY Zenon, <1>1, HasMarked
<1>4. TypesSaved'
  BY Zenon DEF TypesSaved, Taken, Marked
<1>5. /\ Len(rows') = Len(rows) /\ k \in 1 .. Len(rows)
      /\ rows[k].code = c /\ rows[k].type = t /\ rows[k].account = None
  <2>1. rows[k].code = c /\ rows[k].type = t /\ rows[k].account = None
    BY <1>1 DEF Only, Redeems!Row
  <2> QED
    BY Zenon, <1>1, <2>1 DEF Marked, Only
<1>6. ASSUME NEW g \in Redeems!Groups \ {Redeems!Unchecked}, NEW b \in Accounts, paid'[<<g, b>>] # 0
      PROVE  \E i \in 1 .. Len(rows') : rows'[i].account = b /\ Redeems!Group(rows'[i].type) = g
  <2>1. CASE g = Redeems!Group(t) /\ b = a
    <3>1. rows'[k].account = a /\ rows'[k].type = t
      BY Zenon, <1>5 DEF Marked
    <3> QED
      BY Zenon, <1>5, <2>1, <3>1
  <2>2. CASE ~(g = Redeems!Group(t) /\ b = a)
    <3>0. g \in Redeems!Groups /\ paid[<<g, b>>] # 0
      BY Zenon, <1>6, <2>2
    <3>1. PICK i \in 1 .. Len(rows) : rows[i].account = b /\ Redeems!Group(rows[i].type) = g
      BY Zenon, <3>0 DEF PaidSaved
    <3>2. b # None
      BY Zenon, RedeemAssumption
    <3>3. rows[i].code # c
      BY Zenon, <1>1, <1>5, <3>1, <3>2 DEF Only
    <3>4. rows'[i] = rows[i]
      BY Zenon, <3>3 DEF Marked
    <3> QED
      BY Zenon, <1>5, <3>1, <3>4
  <2> QED
    BY Zenon, <2>1, <2>2
<1>7. ASSUME NEW d \in Codes, NEW s \in Types, Redeems!Group(s) < 0, made'[<<d, s>>] # 0
      PROVE  \E i \in 1 .. Len(rows') : rows'[i] = Redeems!Row(d, s, None)
  <2>1. PICK i \in 1 .. Len(rows) : rows[i] = Redeems!Row(d, s, None)
    BY Zenon, <1>7 DEF MadeSaved
  <2>2. rows[i].code = d /\ rows[i].type = s /\ rows[i].account = None
    BY <2>1 DEF Redeems!Row
  <2>3. rows[i].code # c
    <3> SUFFICES ASSUME rows[i].code = c PROVE FALSE
      OBVIOUS
    <3>1. i = k
      BY Zenon, <1>1, <2>2 DEF Only
    <3> QED
      BY Zenon, <1>5, <1>7, <2>2, <3>1
  <2>4. rows'[i] = rows[i]
    BY Zenon, <2>3 DEF Marked
  <2> QED
    BY Zenon, <1>5, <2>1, <2>4
<1> QED
  BY Zenon, <1>2, <1>3, <1>4, <1>6, <1>7 DEF PaidSaved, MadeSaved

(* A use of a code that is never used up: a row more.                      *)
LEMMA UnlimitedSaved ==
    ASSUME rows \in Seq(RowSet), NEW c \in Codes, NEW t \in Types, t = r.unused[c],
           t \in r.configs, Redeems!Group(t) < 0, NEW a \in Accounts, Taken(r', c, t, a),
           rows' = Append(rows, Redeems!Row(c, t, a)), dbTypes' = dbTypes, made' = made,
           \A g \in Redeems!Groups, b \in Accounts :
               ~(g = Redeems!Group(t) /\ b = a) => paid'[<<g, b>>] = paid[<<g, b>>],
           TypesSaved, Orderly(rows), Has(r, rows, Len(rows)), PaidSaved, MadeSaved
    PROVE  TypesSaved' /\ Orderly(rows') /\ Has(r', rows', Len(rows')) /\ PaidSaved' /\ MadeSaved'
<1> DEFINE v == Redeems!Row(c, t, a)
           N == Len(rows)
<1>1. v \in RowSet /\ v.code = c /\ v.type = t /\ v.account = a
  BY DEF RowSet, Redeems!Row
<1> HIDE DEF v
<1>2. /\ N \in Nat /\ rows' \in Seq(RowSet) /\ Len(rows') = N + 1 /\ rows'[N + 1] = v
      /\ \A i \in 1 .. N : rows'[i] = rows[i] /\ rows[i] \in RowSet
      /\ \A j : j \in N + 1 .. N + 1 <=> j = N + 1
      /\ \A j \in 1 .. N + 1 : j \in 1 .. N \/ j = N + 1
      /\ \A i \in 1 .. N : i \in 1 .. N + 1 /\ i < N + 1
      /\ N <= N + 1 /\ N + 1 \in 1 .. N + 1
  <2>1. rows' = Append(rows, v)
    BY Zenon DEF v
  <2>2. N \in Nat /\ rows' \in Seq(RowSet) /\ Len(rows') = N + 1 /\ rows'[N + 1] = v
    BY <1>1, <2>1
  <2>3. \A i \in 1 .. N : rows'[i] = rows[i] /\ rows[i] \in RowSet
    BY <1>1, <2>1
  <2>4. /\ \A j : j \in N + 1 .. N + 1 <=> j = N + 1
        /\ \A j \in 1 .. N + 1 : j \in 1 .. N \/ j = N + 1
        /\ \A i \in 1 .. N : i \in 1 .. N + 1 /\ i < N + 1
        /\ N <= N + 1 /\ N + 1 \in 1 .. N + 1
    BY <2>2
  <2> QED
    BY Zenon, <2>2, <2>3, <2>4
<1>3. Longer(rows', rows)
  BY Zenon, <1>2 DEF Longer
<1>4. a # None /\ t # None /\ Redeems!Group(t) # Redeems!Unchecked
  <2>1. Redeems!Group(t) # Redeems!Unchecked
    BY DEF Redeems!Unchecked
  <2> QED
    BY Zenon, <2>1, RedeemAssumption
<1>5. Unlimited(v) /\ Marks(v)
  BY Zenon, <1>1, <1>4 DEF Unlimited, Marks
<1>6. Orderly(rows')
  <2>1. PICK k \in 1 .. N : rows[k] = Redeems!Row(c, t, None)
    BY Zenon, <1>4 DEF Has, UnusedFrom
  <2>2. rows'[k] = Redeems!Row(v.code, v.type, None) /\ k \in 1 .. N + 1 /\ k < N + 1
    BY Zenon, <1>1, <1>2, <2>1
  <2>3. Fits(rows', N + 1)
    BY Zenon, <1>2, <1>5, <2>2 DEF Fits
  <2>4. \A j \in Len(rows) + 1 .. Len(rows') : Fits(rows', j)
    BY Zenon, <1>2, <2>3
  <2> QED
    BY Zenon, <1>3, <2>4, OrderlyMore
<1>7. Has(r', rows', Len(rows'))
  <2>1. Has(r, rows', N)
    BY Zenon, <1>3, HasFirst
  <2>2. \A d \in Codes : r'.unused[d] = r.unused[d] /\ r'.used[d] = r.used[d]
    BY Zenon DEF Taken
  <2>3. /\ \A g \in Redeems!Groups : r.accounts[g] \subseteq r'.accounts[g]
        /\ a \in r'.accounts[Redeems!Group(t)]
    BY Zenon, <1>4, GroupIs DEF Taken
  <2>4. \A s \in Types : r'.nUsed[s] = IF s = t THEN r.nUsed[s] + 1 ELSE r.nUsed[s]
    BY Zenon DEF Taken
  <2>5. UseKept(r', r, v)
    BY Zenon, <1>1, <1>5, <2>2, <2>3, <2>4 DEF UseKept
  <2>6. \A i \in 1 .. N : rows'[i] \in RowSet
    BY Zenon, <1>2
  <2>7. Has(r', rows', N + 1)
    BY Zenon, <1>1, <1>2, <1>4, <2>1, <2>5, <2>6, HasUsed
  <2> QED
    BY Zenon, <1>2, <2>7
<1>8. TypesSaved'
  <2>1. \A i \in 1 .. Len(rows') : rows'[i].type \in r.configs
    <3> SUFFICES ASSUME NEW i \in 1 .. N + 1 PROVE rows'[i].type \in r.configs
      BY Zenon, <1>2
    <3>1. CASE i \in 1 .. N
      BY Zenon, <1>2, <3>1 DEF TypesSaved
    <3>2. CASE i = N + 1
      BY Zenon, <1>1, <1>2, <3>2
    <3> QED
      BY Zenon, <1>2, <3>1, <3>2
  <2> QED
    BY Zenon, <2>1 DEF TypesSaved, Taken
<1>9. ASSUME NEW g \in Redeems!Groups \ {Redeems!Unchecked}, NEW b \in Accounts, paid'[<<g, b>>] # 0
      PROVE  \E i \in 1 .. Len(rows') : rows'[i].account = b /\ Redeems!Group(rows'[i].type) = g
  <2>1. CASE g = Redeems!Group(t) /\ b = a
    <3>1. N + 1 \in 1 .. Len(rows') /\ rows'[N + 1] = v
      BY Zenon, <1>2
    <3>2. rows'[N + 1].account = b /\ Redeems!Group(rows'[N + 1].type) = g
      BY Zenon, <1>1, <2>1, <3>1
    <3> QED
      BY Zenon, <3>1, <3>2
  <2>2. CASE ~(g = Redeems!Group(t) /\ b = a)
    <3>1. g \in Redeems!Groups /\ paid[<<g, b>>] # 0
      BY Zenon, <1>9, <2>2
    <3>2. PICK i \in 1 .. N : rows[i].account = b /\ Redeems!Group(rows[i].type) = g
      BY Zenon, <3>1 DEF PaidSaved
    <3> QED
      BY Zenon, <1>2, <3>2
  <2> QED
    BY Zenon, <2>1, <2>2
<1>10. PaidSaved' /\ MadeSaved'
  <2>1. PaidSaved'
    BY Zenon, <1>9 DEF PaidSaved
  <2>2. MadeSaved'
    BY Zenon, <1>3, RowsStay
  <2> QED
    BY Zenon, <2>1, <2>2
<1> QED
  BY Zenon, <1>6, <1>7, <1>8, <1>10

(* Exchange keeps the invariant.                                           *)
LEMMA ExchangeKeeps ==
    ASSUME RInv, ~lost, NEW c \in Codes, NEW a \in Accounts, Redeems!Exchange(c, a)
    PROVE  RInv'
<1> DEFINE t == r.unused[c]
           g0 == Redeems!Group(t)
<1>1. /\ t # None /\ Redeems!MayUse(t, a) /\ r' = Redeems!UsedInMemory(c, t, a)
      /\ \/ rows' = Redeems!UsedInTable(c, t, a) /\ unsaved' = unsaved
         \/ unsaved' = TRUE /\ rows' = rows
      /\ grants' = [grants EXCEPT ![<<c, t>>] = grants[<<c, t>>] + 1]
      /\ paid' = [paid EXCEPT ![<<g0, a>>] = paid[<<g0, a>>] + 1]
      /\ dbTypes' = dbTypes /\ made' = made /\ lost' = lost /\ cut' = cut
  BY Zenon DEF Redeems!Exchange
<1>2. /\ r \in Memories /\ Tallied(r) /\ rows \in Seq(RowSet)
      /\ grants \in [Redeems!Goods -> Nat] /\ made \in [Redeems!Goods -> Nat]
      /\ paid \in [Redeems!Groups \X Accounts -> Nat]
  BY Zenon DEF RInv, RTyped
<1>3. Taken(r', c, t, a) /\ t \in Types /\ t \in r.configs
  BY Zenon, <1>1, <1>2, TakenIs
<1>4. g0 \in Redeems!Groups /\ (t \in Redeems!Limited <=> ~(g0 < 0)) /\ a # None
  <2>1. g0 \in Redeems!Groups /\ g0 \in Int /\ (t \in Redeems!Limited <=> g0 >= 0) /\ a # None
    BY Zenon, <1>3, GroupIs, RedeemAssumption
  <2> QED
    BY <2>1
<1> HIDE DEF t, g0
<1>5. /\ grants' \in [Redeems!Goods -> Nat]
      /\ \A d \in Codes, s \in Types :
            /\ ~(d = c /\ s = t) => grants'[<<d, s>>] = grants[<<d, s>>]
            /\ d = c /\ s = t => grants'[<<d, s>>] = grants[<<d, s>>] + 1
            /\ grants[<<d, s>>] \in Nat /\ made[<<d, s>>] \in Nat
  <2>1. <<c, t>> \in Redeems!Goods /\ \A d \in Codes, s \in Types : <<d, s>> \in Redeems!Goods
    BY <1>3 DEF Redeems!Goods
  <2>2. \A d \in Codes, s \in Types : ~(d = c /\ s = t) => <<d, s>> # <<c, t>>
    OBVIOUS
  <2>3. grants' \in [Redeems!Goods -> Nat]
    BY <1>1, <1>2, <2>1
  <2>4. \A d \in Codes, s \in Types : ~(d = c /\ s = t) => grants'[<<d, s>>] = grants[<<d, s>>]
    BY Zenon, <1>1, <1>2, <2>1, <2>2
  <2>5. grants'[<<c, t>>] = grants[<<c, t>>] + 1
    BY Zenon, <1>1, <1>2, <2>1
  <2> QED
    BY Zenon, <1>2, <2>1, <2>3, <2>4, <2>5
<1>6. /\ paid' \in [Redeems!Groups \X Accounts -> Nat]
      /\ \A g \in Redeems!Groups, b \in Accounts :
            /\ ~(g = g0 /\ b = a) => paid'[<<g, b>>] = paid[<<g, b>>]
            /\ g = g0 /\ b = a => paid'[<<g, b>>] = paid[<<g, b>>] + 1
  <2>1. /\ <<g0, a>> \in Redeems!Groups \X Accounts
        /\ \A g \in Redeems!Groups, b \in Accounts : <<g, b>> \in Redeems!Groups \X Accounts
    BY <1>4
  <2>2. \A g \in Redeems!Groups, b \in Accounts : ~(g = g0 /\ b = a) => <<g, b>> # <<g0, a>>
    OBVIOUS
  <2>3. paid' \in [Redeems!Groups \X Accounts -> Nat]
    BY <1>1, <1>2, <2>1
  <2>4. \A g \in Redeems!Groups, b \in Accounts :
          ~(g = g0 /\ b = a) => paid'[<<g, b>>] = paid[<<g, b>>]
    BY Zenon, <1>1, <1>2, <2>1, <2>2
  <2>5. paid'[<<g0, a>>] = paid[<<g0, a>>] + 1
    BY Zenon, <1>1, <1>2, <2>1
  <2> QED
    BY Zenon, <2>3, <2>4, <2>5
<1>7. \/ ~(g0 < 0) /\ Marked(Redeems!UsedInTable(c, t, a), rows, c, a)
      \/ g0 < 0 /\ Redeems!UsedInTable(c, t, a) = Append(rows, Redeems!Row(c, t, a))
  BY Zenon, <1>2, MarkedIs DEF Redeems!UsedInTable, g0
<1>8. /\ Redeems!Row(c, t, a) \in RowSet /\ Redeems!Row(c, t, a).account = a
      /\ Append(rows, Redeems!Row(c, t, a)) \in Seq(RowSet)
      /\ \A i \in 1 .. Len(Append(rows, Redeems!Row(c, t, a))) :
            \/ i \in 1 .. Len(rows) /\ Append(rows, Redeems!Row(c, t, a))[i] = rows[i]
            \/ Append(rows, Redeems!Row(c, t, a))[i] = Redeems!Row(c, t, a)
  <2>1. Redeems!Row(c, t, a) \in RowSet /\ Redeems!Row(c, t, a).account = a
    BY <1>3 DEF RowSet, Redeems!Row
  <2> QED
    BY <1>2, <2>1
<1>9. RTyped'
  <2>1. rows' \in Seq(RowSet)
    BY Zenon, <1>1, <1>2, <1>7, <1>8 DEF Marked
  <2>2. unsaved' \in BOOLEAN
    BY Zenon, <1>1 DEF RInv, RTyped
  <2> QED
    BY Zenon, <1>1, <1>3, <1>5, <1>6, <2>1, <2>2 DEF RInv, RTyped, Taken
<1>10. Payable'
  <2> SUFFICES ASSUME ~lost' PROVE Payable'
    BY Zenon DEF Payable
  <2>1. \A d \in Codes, s \in Redeems!Limited : grants[<<d, s>>] <= made[<<d, s>>] /\ s \in Types
    <3>1. \A x \in Codes \X Redeems!Limited : grants[x] <= made[x]
      BY Zenon DEF RInv, Payable
    <3>2. \A d \in Codes, s \in Redeems!Limited : <<d, s>> \in Codes \X Redeems!Limited
      OBVIOUS
    <3> QED
      BY Zenon, <3>1, <3>2 DEF Redeems!Limited
  <2>2. t \in Redeems!Limited => grants[<<c, t>>] < made[<<c, t>>]
    BY Zenon DEF RInv, Payable, t
  <2>3. ASSUME NEW d \in Codes, NEW s \in Redeems!Limited PROVE grants'[<<d, s>>] <= made'[<<d, s>>]
    <3>1. CASE d = c /\ s = t
      <4>1. grants[<<d, s>>] < made[<<d, s>>] /\ s \in Types
        BY Zenon, <2>1, <2>2, <3>1
      <4>2. grants'[<<d, s>>] = grants[<<d, s>>] + 1 /\ made'[<<d, s>>] = made[<<d, s>>]
        BY Zenon, <1>1, <1>5, <3>1, <4>1
      <4>3. grants[<<d, s>>] \in Nat /\ made[<<d, s>>] \in Nat
        BY Zenon, <1>5, <4>1
      <4> QED
        BY <4>1, <4>2, <4>3
    <3>2. CASE ~(d = c /\ s = t)
      BY Zenon, <1>1, <1>5, <2>1, <3>2
    <3> QED
      BY Zenon, <3>1, <3>2
  <2>4. \A x \in Codes \X Redeems!Limited : grants'[x] <= made'[x]
    <3>1. \A x \in Codes \X Redeems!Limited :
            x[1] \in Codes /\ x[2] \in Redeems!Limited /\ x = <<x[1], x[2]>>
      OBVIOUS
    <3> QED
      BY Zenon, <2>3, <3>1
  <2>5. ASSUME NEW d \in Codes, r'.unused[d] \in Redeems!Limited
        PROVE  grants'[<<d, r'.unused[d]>>] < made'[<<d, r'.unused[d]>>]
    <3>1. None \notin Redeems!Limited
      BY Zenon, RedeemAssumption DEF Redeems!Limited
    <3>2. r'.unused[d] = IF d = c /\ ~(g0 < 0) THEN None ELSE r.unused[d]
      BY Zenon, <1>3 DEF Taken, g0
    <3>3. d # c
      <4> SUFFICES ASSUME d = c PROVE FALSE
        OBVIOUS
      <4>1. ~(g0 < 0) => r'.unused[d] = None
        BY Zenon, <3>2
      <4>2. g0 < 0 => r'.unused[d] = t
        BY Zenon, <3>2 DEF t
      <4> QED
        BY Zenon, <1>4, <2>5, <3>1, <4>1, <4>2
    <3>4. r'.unused[d] = r.unused[d] /\ r.unused[d] \in Redeems!Limited /\ r.unused[d] \in Types
      BY Zenon, <2>1, <2>5, <3>2, <3>3
    <3>5. grants[<<d, r.unused[d]>>] < made[<<d, r.unused[d]>>]
      BY Zenon, <3>4 DEF RInv, Payable
    <3> QED
      BY Zenon, <1>1, <1>5, <3>3, <3>4, <3>5
  <2>6. ASSUME ~unsaved', NEW i \in 1 .. Len(rows'), rows'[i].account = None,
               rows'[i].type \in Redeems!Limited
        PROVE  grants'[<<rows'[i].code, rows'[i].type>>] < made'[<<rows'[i].code, rows'[i].type>>]
    <3>0. rows' = Redeems!UsedInTable(c, t, a) /\ unsaved' = unsaved
      BY Zenon, <1>1, <2>6
    <3>1. rows' = Redeems!UsedInTable(c, t, a) /\ ~unsaved
      BY Zenon, <2>6, <3>0
    <3>2. /\ i \in 1 .. Len(rows) /\ rows'[i] = rows[i]
          /\ ~(rows[i].code = c /\ rows[i].type = t)
      <4>1. CASE ~(g0 < 0) /\ Marked(rows', rows, c, a)
        BY Zenon, <1>4, <2>6, <4>1 DEF Marked
      <4>2. CASE g0 < 0 /\ rows' = Append(rows, Redeems!Row(c, t, a))
        <5>1. i \in 1 .. Len(rows) /\ rows'[i] = rows[i]
          BY Zenon, <1>4, <1>8, <2>6, <4>2
        <5> QED
          BY Zenon, <1>4, <2>6, <4>2, <5>1
      <4> QED
        BY Zenon, <1>7, <3>1, <4>1, <4>2
    <3>3. rows[i] \in RowSet
      BY <1>2, <3>2
    <3>4. rows[i].code \in Codes /\ rows[i].type \in Types
      BY Zenon, <3>3, RowIs
    <3>5. grants[<<rows[i].code, rows[i].type>>] < made[<<rows[i].code, rows[i].type>>]
      BY Zenon, <2>6, <3>1, <3>2 DEF RInv, Payable
    <3>6. grants'[<<rows[i].code, rows[i].type>>] = grants[<<rows[i].code, rows[i].type>>]
      BY Zenon, <1>5, <3>2, <3>4
    <3>7. made' = made /\ rows'[i] = rows[i]
      BY Zenon, <1>1, <3>2
    <3> QED
      BY Zenon, <3>5, <3>6, <3>7
  <2> QED
    BY Zenon, <2>4, <2>5, <2>6 DEF Payable
<1>11. Kept'
  <2> SUFFICES ASSUME ~lost', ~cut' PROVE Kept'
    BY Zenon DEF Kept
  <2>1. r'.inited
    BY Zenon, <1>1, <1>3 DEF RInv, Kept, Taken
  <2>2. ASSUME NEW g \in Redeems!Groups \ {Redeems!Unchecked}, NEW b \in Accounts
        PROVE  paid'[<<g, b>>] <= 1 /\ (paid'[<<g, b>>] # 0 => b \in r'.accounts[g])
    <3>1. paid[<<g, b>>] <= 1 /\ (paid[<<g, b>>] # 0 => b \in r.accounts[g])
      BY Zenon, <1>1 DEF RInv, Kept
    <3>2. r'.accounts[g] = IF g = g0 THEN r.accounts[g] \cup {a} ELSE r.accounts[g]
      BY Zenon, <1>3 DEF Taken, g0
    <3>3. CASE g = g0 /\ b = a
      <4>1. b \notin r.accounts[g]
        BY Zenon, <1>1, <3>3 DEF Redeems!MayUse, g0
      <4>2. paid[<<g, b>>] = 0 /\ paid'[<<g, b>>] = 0 + 1
        BY Zenon, <1>6, <3>1, <3>3, <4>1
      <4>3. paid'[<<g, b>>] <= 1
        BY <4>2
      <4> QED
        BY Zenon, <3>2, <3>3, <4>3
    <3>4. CASE ~(g = g0 /\ b = a)
      <4>1. paid'[<<g, b>>] = paid[<<g, b>>]
        BY Zenon, <1>6, <3>4
      <4> QED
        BY Zenon, <3>1, <3>2, <4>1
    <3> QED
      BY Zenon, <3>3, <3>4
  <2> QED
    BY Zenon, <2>1, <2>2 DEF Kept
<1>12. Saved'
  <2> SUFFICES ASSUME ~lost', ~cut', ~unsaved' PROVE Saved'
    BY Zenon DEF Saved
  <2>1. rows' = Redeems!UsedInTable(c, t, a) /\ unsaved' = unsaved
    BY Zenon, <1>1
  <2>2. ~lost /\ ~cut /\ ~unsaved
    BY Zenon, <1>1, <2>1
  <2>3. TypesSaved /\ Orderly(rows) /\ Has(r, rows, Len(rows)) /\ PaidSaved /\ MadeSaved
    BY Zenon, <2>2 DEF RInv, Saved
  <2>4. \A g \in Redeems!Groups, b \in Accounts :
          ~(g = Redeems!Group(t) /\ b = a) => paid'[<<g, b>>] = paid[<<g, b>>]
    BY Zenon, <1>6 DEF g0
  <2>5. t = r.unused[c] /\ dbTypes' = dbTypes /\ made' = made
    BY Zenon, <1>1 DEF t
  <2>6. TypesSaved' /\ Orderly(rows') /\ Has(r', rows', Len(rows')) /\ PaidSaved' /\ MadeSaved'
    <3>1. CASE ~(g0 < 0) /\ Marked(rows', rows, c, a)
      <4>1. ~(Redeems!Group(t) < 0)
        BY Zenon, <3>1 DEF g0
      <4> QED
        BY Zenon, <1>2, <1>3, <2>3, <2>4, <2>5, <3>1, <4>1, LimitedSaved
    <3>2. CASE g0 < 0 /\ rows' = Append(rows, Redeems!Row(c, t, a))
      <4>1. Redeems!Group(t) < 0
        BY Zenon, <3>2 DEF g0
      <4> QED
        BY Zenon, <1>2, <1>3, <2>3, <2>4, <2>5, <3>2, <4>1, UnlimitedSaved
    <3> QED
      BY Zenon, <1>7, <2>1, <3>1, <3>2
  <2> QED
    BY Zenon, <2>6 DEF Saved
<1> QED
  BY Zenon, <1>9, <1>10, <1>11, <1>12 DEF RInv

(* The invariant holds at the start: no type, no code, nothing paid.       *)
LEMMA RStarts ==
    ASSUME Redeems!Init
    PROVE  RInv
<1>1. /\ dbTypes = {} /\ rows = <<>> /\ r = [Redeems!Empty EXCEPT !.inited = TRUE]
      /\ made = [x \in Redeems!Goods |-> 0] /\ grants = [x \in Redeems!Goods |-> 0]
      /\ paid = [x \in Redeems!Groups \X Accounts |-> 0]
      /\ unsaved = FALSE /\ lost = FALSE /\ cut = FALSE
  BY Zenon DEF Redeems!Init
<1> DEFINE m == [Redeems!Empty EXCEPT !.configs = {}]
<1>2. NoCodes(m, {})
  BY Zenon, EmptyIs
<1>3. r = [m EXCEPT !.inited = TRUE]
  <2> DEFINE no == FALSE
             yes == TRUE
             none == [c \in Codes |-> None]
             noOne == [g \in Redeems!Groups |-> {}]
             zero == [t \in Types |-> 0]
  <2>1. Redeems!Empty = [configs |-> {}, inited |-> no, unused |-> none, used |-> none,
                         accounts |-> noOne, nUsed |-> zero, nUnused |-> zero]
    BY Zenon DEF Redeems!Empty
  <2>2. r = [Redeems!Empty EXCEPT !.inited = yes]
    BY Zenon, <1>1
  <2> HIDE DEF no, yes, none, noOne, zero
  <2>3. m = Redeems!Empty
    BY <2>1
  <2> HIDE DEF m
  <2> QED
    BY Zenon, <2>2, <2>3 DEF yes
<1> HIDE DEF m
<1>4. /\ m \in Memories /\ Tallied(m) /\ m.configs = {}
      /\ \A c \in Codes : m.unused[c] = None /\ m.used[c] = None
      /\ \A t \in Types : m.nUsed[t] = 0
  BY Zenon, <1>2 DEF NoCodes
<1>5. r \in Memories /\ Tallied(r) /\ SameMaps(r, m) /\ r.configs = m.configs /\ r.inited = TRUE
  <2>1. TRUE \in BOOLEAN
    BY Zenon
  <2> QED
    BY Zenon, <1>3, <1>4, <2>1, FlagIs
<1>6. Len(rows) = 0 /\ \A i \in 1 .. Len(rows) : FALSE
  BY <1>1
<1>7. RTyped
  <2>1. rows \in Seq(RowSet) /\ dbTypes \subseteq Types
    BY <1>1
  <2>2. /\ made \in [Redeems!Goods -> Nat] /\ grants \in [Redeems!Goods -> Nat]
        /\ paid \in [Redeems!Groups \X Accounts -> Nat]
    BY <1>1
  <2>3. unsaved \in BOOLEAN /\ lost \in BOOLEAN /\ cut \in BOOLEAN
    BY Zenon, <1>1
  <2> QED
    BY Zenon, <1>5, <2>1, <2>2, <2>3 DEF RTyped
<1>8. Payable
  <2>1. \A x \in Codes \X Redeems!Limited : grants[x] <= made[x]
    <3>1. Codes \X Redeems!Limited \subseteq Redeems!Goods
      BY DEF Redeems!Limited, Redeems!Goods
    <3>2. \A x \in Codes \X Redeems!Limited : grants[x] = 0 /\ made[x] = 0
      BY Zenon, <1>1, <3>1
    <3> QED
      BY <3>2
  <2>2. \A c \in Codes : r.unused[c] \notin Redeems!Limited
    <3>1. \A c \in Codes : r.unused[c] = None
      BY Zenon, <1>4, <1>5 DEF SameMaps
    <3> QED
      BY Zenon, <3>1, RedeemAssumption DEF Redeems!Limited
  <2> QED
    BY Zenon, <1>6, <2>1, <2>2 DEF Payable
<1>9. \A g \in Redeems!Groups, a \in Accounts : paid[<<g, a>>] = 0
  <2>1. \A g \in Redeems!Groups, a \in Accounts : <<g, a>> \in Redeems!Groups \X Accounts
    OBVIOUS
  <2> QED
    BY Zenon, <1>1, <2>1
<1>10. Kept
  <2>1. \A g \in Redeems!Groups, a \in Accounts : paid[<<g, a>>] <= 1
    <3>1. 0 <= 1
      OBVIOUS
    <3> QED
      BY Zenon, <1>9, <3>1
  <2> QED
    BY Zenon, <1>5, <1>9, <2>1 DEF Kept
<1>11. Has(r, rows, Len(rows))
  <2>1. \A t : Cardinality(UsesOf(rows, Len(rows), t)) = 0
    <3>1. \A t : UsesOf(rows, Len(rows), t) = {}
      BY Zenon, <1>6 DEF UsesOf
    <3> QED
      BY Zenon, <3>1, FS_EmptySet
  <2>2. Has(m, rows, Len(rows))
    BY Zenon, <1>4, <1>6, <2>1 DEF Has, UnusedRead, UnusedFrom, UsesRead, UsesCounted
  <2> QED
    BY Zenon, <1>5, <2>2, SameHas
<1>12. Orderly(rows) /\ TypesSaved
  BY Zenon, <1>1, <1>4, <1>5, <1>6 DEF Orderly, TypesSaved
<1>13. PaidSaved
  BY Zenon, <1>9 DEF PaidSaved
<1>14. MadeSaved
  <2>1. \A c \in Codes, t \in Types : <<c, t>> \in Redeems!Goods
    BY DEF Redeems!Goods
  <2>2. \A c \in Codes, t \in Types : made[<<c, t>>] = 0
    BY Zenon, <1>1, <2>1
  <2> QED
    BY Zenon, <2>2 DEF MadeSaved
<1> QED
  BY Zenon, <1>7, <1>8, <1>10, <1>11, <1>12, <1>13, <1>14 DEF RInv, Saved

(* Every step of the redeem codes keeps the invariant.                     *)
LEMMA RSteps ==
    ASSUME RInv, [Redeems!Next]_(Redeems!vars)
    PROVE  RInv'
<1>1. CASE UNCHANGED Redeems!vars
  <2>1. /\ dbTypes' = dbTypes /\ rows' = rows /\ r' = r /\ made' = made /\ grants' = grants
        /\ paid' = paid /\ unsaved' = unsaved /\ lost' = lost /\ cut' = cut
    BY Zenon, <1>1 DEF Redeems!vars
  <2>2. RTyped' /\ Payable' /\ Kept'
    BY Zenon, <2>1 DEF RInv, RTyped, Payable, Kept
  <2>3. TypesSaved => TypesSaved'
    BY Zenon, <2>1 DEF TypesSaved
  <2>4. PaidSaved => PaidSaved'
    BY Zenon, <2>1 DEF PaidSaved
  <2>5. MadeSaved => MadeSaved'
    BY Zenon, <2>1 DEF MadeSaved
  <2>6. Saved'
    BY Zenon, <2>1, <2>3, <2>4, <2>5 DEF RInv, Saved
  <2> QED
    BY Zenon, <2>2, <2>6 DEF RInv
<1>2. CASE Redeems!Next
  <2>1. ~lost
    BY Zenon, <1>2 DEF Redeems!Next
  <2>2. CASE Redeems!Restart
    BY Zenon, <2>1, <2>2, RestartKeeps
  <2>3. CASE \E t \in Types : Redeems!AddConfig(t)
    BY Zenon, <2>3, AddConfigKeeps
  <2>4. CASE \E t \in Types, codes \in Redeems!Drawn : Redeems!AddCodeN(t, codes)
    BY Zenon, <2>1, <2>4, AddCodeNKeeps
  <2>5. CASE \E c \in Codes, a \in Accounts : Redeems!Exchange(c, a)
    BY Zenon, <2>1, <2>5, ExchangeKeeps
  <2> QED
    BY Zenon, <1>2, <2>2, <2>3, <2>4, <2>5 DEF Redeems!Next
<1> QED
  BY Zenon, <1>1, <1>2

(* The rows of the unused codes of a type, one for each in memory.         *)
LEMMA UnusedCounted ==
    ASSUME RTyped, Orderly(rows), Has(r, rows, Len(rows)), NEW t \in Types
    PROVE  r.nUnused[t] = Cardinality(Redeems!UnusedRows(t))
<1> DEFINE U == Redeems!UnusedRows(t)
           C == CodesOf(r, t)
           f == [i \in U |-> rows[i].code]
<1>1. \A i : i \in U <=> i \in 1 .. Len(rows) /\ rows[i].type = t /\ rows[i].account = None
  BY Zenon DEF Redeems!UnusedRows
<1>2. \A i \in 1 .. Len(rows) : rows[i] \in RowSet /\ rows[i].code \in Codes
  <2>1. \A i \in 1 .. Len(rows) : rows[i] \in RowSet
    BY DEF RTyped
  <2> QED
    BY Zenon, <2>1, RowIs
<1> HIDE DEF U
<1>3. ASSUME NEW i \in U PROVE f[i] = rows[i].code /\ rows[i].code \in C
  <2>1. r.unused[rows[i].code] = t
    BY Zenon, <1>1 DEF Has, UnusedRead
  <2> QED
    BY Zenon, <1>1, <1>2, <2>1 DEF CodesOf
<1>4. ASSUME NEW c \in C PROVE \E i \in U : f[i] = c
  <2>1. c \in Codes /\ r.unused[c] = t /\ t # None
    BY Zenon, RedeemAssumption DEF CodesOf
  <2>2. PICK i \in 1 .. Len(rows) : rows[i] = Redeems!Row(c, t, None)
    BY Zenon, <2>1 DEF Has, UnusedFrom
  <2>3. rows[i].code = c /\ rows[i].type = t /\ rows[i].account = None
    BY <2>2 DEF Redeems!Row
  <2> QED
    BY Zenon, <1>1, <1>3, <2>3
<1>5. ASSUME NEW i \in U, NEW j \in U, f[i] = f[j] PROVE i = j
  <2> SUFFICES ASSUME i # j PROVE FALSE
    OBVIOUS
  <2>1. i \in 1 .. Len(rows) /\ j \in 1 .. Len(rows) /\ rows[i].code = rows[j].code
    BY Zenon, <1>1, <1>3, <1>5
  <2>2. i < j \/ j < i
    BY <2>1
  <2>3. /\ Blocks(rows[i], rows[j]) /\ Blocks(rows[j], rows[i])
        /\ ~Unlimited(rows[i]) /\ ~Unlimited(rows[j])
    BY Zenon, <1>1, <2>1 DEF Blocks, Unlimited
  <2> QED
    BY Zenon, <2>1, <2>2, <2>3 DEF Orderly
<1>6. f \in Bijection(U, C)
  <2>1. f \in [U -> C]
    BY Zenon, <1>3
  <2> HIDE DEF f, C
  <2> QED
    BY Zenon, <1>4, <1>5, <2>1 DEF Bijection, Injection, Surjection, IsInjective
<1>7. IsFiniteSet(U) /\ Cardinality(U) = Cardinality(C)
  <2>1. IsFiniteSet(1 .. Len(rows))
    BY FS_Interval DEF RTyped
  <2>2. U \subseteq 1 .. Len(rows)
    BY Zenon, <1>1
  <2>3. IsFiniteSet(U)
    BY Zenon, <2>1, <2>2, FS_Subset
  <2> HIDE DEF C, f
  <2>4. ExistsBijection(U, C)
    BY Zenon, <1>6 DEF ExistsBijection
  <2> QED
    BY Zenon, <2>3, <2>4, FS_Bijection
<1>8. r.nUnused[t] = Cardinality(C)
  BY Zenon DEF RTyped, Tallied
<1> QED
  BY Zenon, <1>7, <1>8 DEF U

(* The invariant is as strong as what is said of the codes.                *)
LEMMA RPromises ==
    ASSUME RInv
    PROVE  OncePerCode /\ OncePerGroup /\ MemoryIsTable
<1>1. OncePerCode
  BY Zenon DEF RInv, Payable, OncePerCode, Redeems!OncePerCode
<1>2. OncePerGroup
  BY Zenon DEF RInv, Kept, OncePerGroup, Redeems!OncePerGroup
<1>3. Redeems!TypeOK
  <2>1. /\ \A i \in 1 .. Len(rows) : rows[i] \in RowSet
        /\ r.configs \subseteq Types
        /\ \A t \in Types : r.nUsed[t] \in Nat /\ r.nUnused[t] \in Nat
    BY DEF RInv, RTyped, Memories
  <2> QED
    BY Zenon, <2>1, RowIs DEF RInv, RTyped, Tallied, Redeems!TypeOK
<1>4. ASSUME ~lost, ~unsaved, ~cut
      PROVE  /\ \A t \in r.configs :
                   /\ r.nUnused[t] = Redeems!Cardinality(Redeems!UnusedRows(t))
                   /\ r.nUsed[t] = Redeems!Cardinality(Redeems!UsedRows(t))
             /\ \A x \in Codes \X (Types \ Redeems!Limited) :
                   made[x] > 0 => r.unused[x[1]] = x[2]
  <2>1. RTyped /\ Orderly(rows) /\ Has(r, rows, Len(rows)) /\ MadeSaved
    BY Zenon, <1>4 DEF RInv, Saved
  <2>2. r.configs \subseteq Types
    BY <2>1 DEF RTyped, Memories
  <2>3. \A t \in Types : r.nUnused[t] = Redeems!Cardinality(Redeems!UnusedRows(t))
    BY Zenon, <2>1, UnusedCounted, SameCount
  <2>4. \A t \in Types : r.nUsed[t] = Redeems!Cardinality(Redeems!UsedRows(t))
    <3>1. \A t : Redeems!UsedRows(t) = UsesOf(rows, Len(rows), t)
      BY Zenon DEF Redeems!UsedRows, UsesOf
    <3> QED
      BY Zenon, <2>1, <3>1, SameCount DEF Has, UsesCounted
  <2>5. ASSUME NEW x \in Codes \X (Types \ Redeems!Limited), made[x] > 0
        PROVE  r.unused[x[1]] = x[2]
    <3>1. x = <<x[1], x[2]>> /\ x[1] \in Codes /\ x[2] \in Types /\ x[2] \notin Redeems!Limited
      OBVIOUS
    <3>2. Redeems!Group(x[2]) \in Int /\ ~(Redeems!Group(x[2]) >= 0)
      BY Zenon, <3>1, GroupIs
    <3>3. Redeems!Group(x[2]) < 0 /\ made[x] # 0
      BY <2>5, <3>2
    <3>4. PICK i \in 1 .. Len(rows) : rows[i] = Redeems!Row(x[1], x[2], None)
      BY Zenon, <2>1, <3>1, <3>3 DEF MadeSaved
    <3>5. rows[i].code = x[1] /\ rows[i].type = x[2] /\ rows[i].account = None
      BY <3>4 DEF Redeems!Row
    <3> QED
      BY Zenon, <2>1, <3>5 DEF Has, UnusedRead
  <2> QED
    BY Zenon, <2>2, <2>3, <2>4, <2>5
<1>5. MemoryIsTable
  BY Zenon, <1>3, <1>4 DEF MemoryIsTable, Redeems!MemoryIsTable
<1> QED
  BY Zenon, <1>1, <1>2, <1>5

(* The invariant of the redeem codes holds in every behaviour.             *)
LEMMA RHolds == Redeems!Spec => []RInv
<1>1. Redeems!Init => RInv
  BY RStarts
<1>2. RInv /\ [Redeems!Next]_(Redeems!vars) => RInv'
  BY RSteps
<1> QED
  BY <1>1, <1>2, PTL DEF Redeems!Spec

(* A code of a limited type pays as often as it was made, for any codes,   *)
(* accounts and types: no load brings back a code that was used, wherever  *)
(* it is cut, unless the process stopped with a use the table had refused  *)
(* (Use, Load, AddCodeN).                                                  *)
THEOREM OncePerCodeHolds == Redeems!Spec => []OncePerCode
<1>1. RInv => OncePerCode
  BY RPromises
<1> QED
  BY <1>1, RHolds, PTL

(* An account is paid for one code of each group that is checked, across   *)
(* restarts: a complete load finds every account that was paid (Use, Load, *)
(* AddCode).                                                               *)
THEOREM OncePerGroupHolds == Redeems!Spec => []OncePerGroup
<1>1. RInv => OncePerGroup
  BY RPromises
<1> QED
  BY <1>1, RHolds, PTL

(* The counters of Status are the rows of the table, whether AddCodeN and  *)
(* Use changed them or Load found them, and a code that is never used up   *)
(* stays one that can be used.                                             *)
THEOREM MemoryIsTableHolds == Redeems!Spec => []MemoryIsTable
<1>1. RInv => MemoryIsTable
  BY RPromises
<1> QED
  BY <1>1, RHolds, PTL
=============================================================================
