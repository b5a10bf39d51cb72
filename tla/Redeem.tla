------------------------------- MODULE Redeem -------------------------------
(* The redeem codes of the Go service (redeem/redeem/redeem.go): the types *)
(* and codes an administrator makes, their use by accounts, the maps that  *)
(* are kept in memory and the tables they are loaded from.                 *)
(*                                                                         *)
(* AddConfig, AddCodeN and Use hold r.lock from beginning to end, database *)
(* calls included, so each is one step. The process may stop between any   *)
(* two steps and load again; the database may refuse a write, which Use    *)
(* only logs, and may end a load early. An account is the pair             *)
(* account:sid. What a code is worth, its time limit and its channel are   *)
(* data: a use that they refuse changes nothing.                           *)
EXTENDS Integers, Sequences, FiniteSets, FiniteSetsExt, Functions

CONSTANTS
    Codes,
    Types,       \* the types of codes, positive numbers
    GroupOf,     \* the group each type is made with: [Types -> Nat]
    Accounts,
    None,        \* no account, no type
    MaxMade,     \* bound: codes that are generated
    MaxGrants    \* bound: uses that succeed

Unchecked == 8888   \* accounts may use several codes of this group

VARIABLES
    dbTypes,     \* redeem_type: its types
    rows,        \* redeem_code: its rows, in the order they were inserted
    r,           \* type Redeem: the maps in memory, and the flag inited
    made,        \* how often AddCodeN made this code of this type
    grants,      \* how often what a code of this type is worth was given
    paid,        \* how often an account was given something of this group
    unsaved,     \* something is in memory that the database did not take
    lost,        \* ... and the process stopped
    cut          \* a load ended early

vars == <<dbTypes, rows, r, made, grants, paid, unsaved, lost, cut>>

\* The group of a type in memory; a negative group is never used up.
Group(t) == IF GroupOf[t] = 9999 THEN -t ELSE GroupOf[t]
Groups == {Group(t) : t \in Types}

Row(c, t, a) == [code |-> c, type |-> t, account |-> a]
Goods == Codes \X Types

\* The sum of the values of f on S.
SumOn(f, S) == MapThenSumSet(LAMBDA x : f[x], S)

Empty ==
    [configs |-> {}, inited |-> FALSE,
     unused  |-> [c \in Codes |-> None],     \* the type of an unused code
     used    |-> [c \in Codes |-> None],     \* who has used the code
     accounts |-> [g \in Groups |-> {}],
     nUsed   |-> [t \in Types |-> 0],
     nUnused |-> [t \in Types |-> 0]]

\* Codes of type t become ones that can be used.
Unused(m, cs, t) ==
    [m EXCEPT !.unused = [c \in Codes |-> IF c \in cs THEN t ELSE m.unused[c]],
              !.nUnused[t] = m.nUnused[t] + Cardinality(cs)]

\* A code of type t has been used.
Counted(m, t) == [m EXCEPT !.nUsed[t] = m.nUsed[t] + 1]

\* Is code c in a map already, as AddCodeN and AddCode ask for a type?
Known(m, c, t) ==
    \/ m.unused[c] # None
    \/ Group(t) >= 0 /\ m.used[c] # None

\* Mutant: who has used a code is not noted in its group.
RememberNoAccount(m, row) == [m EXCEPT !.used[row.code] = row.account]

\* What AddCode keeps of a used code in the table: one of the unchecked
\* group is counted and not remembered.
RememberUse(m, row) ==
    IF Group(row.type) = Unchecked
    THEN m
    ELSE [m EXCEPT !.used[row.code] = row.account,
                   !.accounts[Group(row.type)] =
                       m.accounts[Group(row.type)] \union {row.account}]

\* Mutant: the uses of an unlimited code are skipped, as its code is known.
AddCodeKnownSkipped(m, row) ==
    IF row.type \notin m.configs \/ Known(m, row.code, row.type)
    THEN m
    ELSE IF row.account = None
    THEN Unused(m, {row.code}, row.type)
    ELSE Counted(RememberUse(m, row), row.type)

\* AddCode, as Load calls it for a row of the table.
AddCode(m, row) ==
    LET ofUnlimited == Group(row.type) < 0 /\ row.account # None
    IN  IF \/ row.type \notin m.configs
           \/ ~ofUnlimited /\ Known(m, row.code, row.type)
        THEN m
        ELSE IF row.account = None
        THEN Unused(m, {row.code}, row.type)
        ELSE Counted(RememberUse(m, row), row.type)

\* What is in memory after n rows, for the types that were read before them.
Load[n \in 0 .. Len(rows)] ==
    [types \in SUBSET Types |->
        IF n = 0 THEN [Empty EXCEPT !.configs = types]
                 ELSE AddCode(Load[n - 1][types], rows[n])]

(* Load reads the types, then the codes. A query that fails ends it, and   *)
(* inited stays false: nothing is written until the process starts again.  *)
(* A connection that fails while rows are read just ends the loop.         *)
Loaded(types, n, ok) == [Load[n][types] EXCEPT !.inited = ok]

Complete(types, n, ok) == types = dbTypes /\ n = Len(rows) /\ ok

----------------------------------------------------------------------------
Init ==
    /\ dbTypes = {}
    /\ rows = <<>>
    /\ r = [Empty EXCEPT !.inited = TRUE]
    /\ made = [x \in Goods |-> 0]
    /\ grants = [x \in Goods |-> 0]
    /\ paid = [x \in Groups \X Accounts |-> 0]
    /\ unsaved = FALSE
    /\ lost = FALSE
    /\ cut = FALSE

\* The process stops and is started again: GetManager loads a new instance.
\* Bound: one load of a behaviour ends early.
Restart ==
    /\ \E types \in SUBSET dbTypes, n \in 0..Len(rows), ok \in BOOLEAN :
          /\ ~ok => n = 0
          /\ cut => Complete(types, n, ok)
          /\ r' = Loaded(types, n, ok)
          /\ cut' = (cut \/ ~Complete(types, n, ok))
    /\ lost' = (lost \/ unsaved)
    /\ unsaved' = FALSE
    /\ UNCHANGED <<dbTypes, rows, made, grants, paid>>

(* AddConfig for a type the administrator makes: the row of the type is    *)
(* inserted (its key refuses a type that is there), then the rows of its   *)
(* contents; when one of these fails the type is in the table and not in   *)
(* memory.                                                                 *)
AddConfig(t) ==
    /\ t \notin r.configs
    /\ \/ /\ r.inited /\ t \notin dbTypes
          /\ dbTypes' = dbTypes \union {t}
          /\ \/ r' = [r EXCEPT !.configs = r.configs \union {t}]
             \/ r' = r
          /\ UNCHANGED unsaved
       \/ /\ ~r.inited
          /\ r' = [r EXCEPT !.configs = r.configs \union {t}]
          /\ unsaved' = TRUE
          /\ UNCHANGED dbTypes
    /\ UNCHANGED <<rows, made, grants, paid, lost, cut>>

(* AddCodeN: the codes are added up to the first one that is in a map or   *)
(* that the table refuses; the transaction is committed on every return,   *)
(* and whether it was is not looked at.                                    *)
AddCodeN(t, codes) ==
    LET Fits(i) == ~Known(r, codes[i], t)
    IN  /\ t \in r.configs
        /\ SumOn(made, Goods) + Len(codes) <= MaxMade
        /\ \E n \in 1..Len(codes), committed \in BOOLEAN :
              LET added == {codes[i] : i \in 1..n}
              IN  /\ \A i \in 1..n : Fits(i)
                  /\ ~r.inited /\ n < Len(codes) => ~Fits(n + 1)
                  /\ r' = Unused(r, added, t)
                  /\ IF r.inited /\ committed
                     THEN /\ rows' = rows \o [i \in 1..n |-> Row(codes[i], t, None)]
                          /\ UNCHANGED unsaved
                     ELSE /\ unsaved' = TRUE
                          /\ UNCHANGED rows
                  /\ made' = [x \in Goods |->
                                IF x[1] \in added /\ x[2] = t THEN made[x] + 1 ELSE made[x]]
        /\ UNCHANGED <<dbTypes, grants, paid, lost, cut>>

\* What a use leaves in memory ...
UsedInMemory(c, t, a) ==
    LET counted == Counted(r, t)
        taken == IF Group(t) < 0 THEN counted
                 ELSE [counted EXCEPT !.nUnused[t] = r.nUnused[t] - 1, !.used[c] = a,
                                      !.unused[c] = None]
    IN  IF Group(t) = Unchecked THEN taken
        ELSE [taken EXCEPT !.accounts[Group(t)] = r.accounts[Group(t)] \union {a}]

\* Mutant: every use is a row of its own.
UsedInTableInserts(c, t, a) == Append(rows, Row(c, t, a))

\* ... and in the table.
UsedInTable(c, t, a) ==
    IF Group(t) < 0
    THEN Append(rows, Row(c, t, a))
    ELSE [i \in 1..Len(rows) |->
            IF rows[i].code = c THEN [rows[i] EXCEPT !.account = a] ELSE rows[i]]

\* The account may use a code of type t: it has used none of its group.
MayUse(t, a) == Group(t) = Unchecked \/ a \notin r.accounts[Group(t)]

(* Exchange: Use, under the lock, then one request to the game server for  *)
(* what the code is worth, which is not repeated. Use only logs that the   *)
(* table refused the write. When the code cannot be used (or was used by   *)
(* this account already) nothing changes.                                  *)
Exchange(c, a) ==
    LET t == r.unused[c]
    IN  /\ t # None
        /\ MayUse(t, a)
        /\ SumOn(grants, Goods) < MaxGrants
        /\ r' = UsedInMemory(c, t, a)
        /\ \/ /\ r.inited
              /\ rows' = UsedInTable(c, t, a)
              /\ UNCHANGED unsaved
           \/ /\ unsaved' = TRUE
              /\ UNCHANGED rows
        /\ grants' = [grants EXCEPT ![<<c, t>>] = @ + 1]
        /\ paid' = [paid EXCEPT ![<<Group(t), a>>] = @ + 1]
        /\ UNCHANGED <<dbTypes, made, lost, cut>>

\* The lists of codes Gen may draw.
Drawn == {s \in (UNION {[1..n -> Codes] : n \in 1..2}) : IsInjective(s)}

\* A behaviour ends where uses were lost: nothing is promised from there on.
Next ==
    /\ ~lost
    /\ \/ Restart
       \/ \E t \in Types : AddConfig(t)
       \/ \E t \in Types, codes \in Drawn : AddCodeN(t, codes)
       \/ \E c \in Codes, a \in Accounts : Exchange(c, a)

Spec == Init /\ [][Next]_vars
----------------------------------------------------------------------------
Limited == {t \in Types : Group(t) >= 0}

UnusedRows(t) == {i \in 1..Len(rows) : rows[i].type = t /\ rows[i].account = None}
UsedRows(t) == {i \in 1..Len(rows) : rows[i].type = t /\ rows[i].account # None}

\* The maps and tables hold codes, types and accounts of the service.
TypeOK ==
    /\ dbTypes \subseteq Types
    /\ \A i \in 1..Len(rows) : rows[i].account \in Accounts \union {None}
    /\ r.configs \subseteq Types
    /\ \A c \in Codes : r.unused[c] \in r.configs \union {None}
    /\ \A t \in Types : r.nUsed[t] \in Nat /\ r.nUnused[t] \in Nat

(* A code of a limited type pays as often as it was made, whatever loads   *)
(* were cut short and wherever the process stopped, unless it stopped with *)
(* a use the table had refused.                                            *)
OncePerCode ==
    ~lost => \A x \in Codes \X Limited : grants[x] <= made[x]

(* An account is paid for one code of each group that is checked, across   *)
(* restarts and for codes that are never used up too.                      *)
OncePerGroup ==
    ~lost /\ ~cut =>
        \A g \in Groups \ {Unchecked}, a \in Accounts : paid[<<g, a>>] <= 1

(* What is in memory is what the table would give: Status counts the rows, *)
(* as AddCodeN and Use changed them or Load found them, and a code that is *)
(* never used up stays in the map of unused codes.                         *)
MemoryIsTable ==
    TypeOK /\ (~lost /\ ~unsaved /\ ~cut =>
        /\ \A t \in r.configs :
              /\ r.nUnused[t] = Cardinality(UnusedRows(t))
              /\ r.nUsed[t] = Cardinality(UsedRows(t))
        /\ \A x \in Codes \X (Types \ Limited) :
              made[x] > 0 => r.unused[x[1]] = x[2])
============================================================================
