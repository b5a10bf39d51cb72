----------------------------- MODULE Rows_proofs -----------------------------
(***************************************************************************)
(* Proofs about two parts of the world server that have nothing in common: *)
(* the rows that it keeps in memory (module WriteBehind, here the instance *)
(* Rows of MCRows), for any rows, columns, values and times, and its       *)
(* notifications (module Notify, here the instance Notes of MCNotes), for  *)
(* any players, keys and contents, and any length of the array of counts.  *)
(***************************************************************************)
EXTENDS MCRows, MCNotes, TLAPS
-----------------------------------------------------------------------------
(* The rows.                                                               *)

\* OwnStructs, of the structures objs, the list ls and the current ones c.
Own(objs, ls, c) ==
    /\ \A r \in Records : c[r] # NoObj =>
           objs[c[r]].flag = "none" /\ objs[c[r]].rec = r
    /\ \A o \in Objs :
           /\ o \in ls => objs[o].flag # "free"
           /\ objs[o].flag \in {"release", "delete"} => o \in ls
           /\ objs[o].flag = "none" => c[objs[o].rec] = o

\* dirty_time is zero when no column is dirty.
Tidy(objs) == \A o \in Objs : objs[o].clean <=> objs[o].dirty = {}

\* What holds before a flush, of the rows w and the idle times id: changes that
\* have not been written are those of the structure in use, if there is one, and
\* the flush will find them.
Behind(objs, ls, c, w, id) ==
    /\ \A o \in Objs : objs[o].dirty # {} =>
           o \in ls /\ objs[o].flag \in {"none", "release"}
    /\ \A o \in Objs : objs[o].dirty # {} => c[objs[o].rec] \in {NoObj, o}
    /\ \A r \in Records : c[r] # NoObj =>
           /\ r \in DOMAIN w
           /\ \A f \in Fields :
                  objs[c[r]].data[f] # w[r][f] => f \in objs[c[r]].dirty
           /\ objs[c[r]].dirty # {} =>
                  \/ id[r] <= objs[c[r]].changeAge
                  \/ objs[c[r]].changeAge >= QuietMax

\* The inductive invariant.
RInv ==
    /\ Rows!TypeOK
    /\ Own(obj, list, struct)
    /\ Tidy(obj)
    /\ ~failed =>
           /\ Behind(obj, list, struct, row, idle)
           /\ \A o \in Objs : obj[o].dirty # {} => obj[o].flag = "none"
           /\ step = "idle" => \A o \in Objs : obj[o].dirty # {} =>
                  obj[o].dirtyAge < DirtyMax /\ obj[o].changeAge < QuietMax
-----------------------------------------------------------------------------
(* The structures.                                                         *)

Names == {"rec", "data", "dirty", "clean", "dirtyAge", "changeAge", "flag"}

\* A record with the fields of a structure.
Shape(s) == s = [x \in Names |-> s[x]]

\* struct DATA_X, field by field.
LEMMA StructFields ==
    ASSUME NEW s
    PROVE  s \in Rows!Struct <=>
               /\ Shape(s)
               /\ s.rec \in Records /\ s.data \in Rows!Data /\ s.dirty \subseteq Fields
               /\ s.clean \in BOOLEAN
               /\ s.dirtyAge \in 0 .. DirtyMax /\ s.changeAge \in 0 .. DirtyMax
               /\ s.flag \in {"none", "delete", "release", "free"}
<1>1. s \in Rows!Struct => Shape(s)
  BY Zenon DEF Rows!Struct, Names, Shape
<1> QED
  BY Zenon, <1>1 DEF Rows!Struct, Names, Shape

\* DATA_X_new and DATA_X_load make a clean structure.
LEMMA FreshFields ==
    ASSUME NEW r \in Records, NEW d \in Rows!Data
    PROVE  /\ Rows!Fresh(r, d) \in Rows!Struct
           /\ Rows!Fresh(r, d).rec = r /\ Rows!Fresh(r, d).data = d
           /\ Rows!Fresh(r, d).dirty = {} /\ Rows!Fresh(r, d).clean = TRUE
           /\ Rows!Fresh(r, d).flag = "none"
  BY RowsAssumption DEF Rows!Fresh, Rows!Struct

\* Memory that is freed holds no change.
LEMMA FreedFields ==
    ASSUME NEW s \in Rows!Struct
    PROVE  /\ Rows!Freed(s) \in Rows!Struct
           /\ Rows!Freed(s).rec = s.rec
           /\ Rows!Freed(s).dirty = {} /\ Rows!Freed(s).clean = TRUE
           /\ Rows!Freed(s).flag = "free"
<1>1. Shape(s)
  BY Zenon, StructFields
<1>2. Shape(Rows!Freed(s))
  BY Zenon, <1>1 DEF Shape, Names, Rows!Freed
<1>3. /\ Rows!Freed(s).rec = s.rec /\ Rows!Freed(s).data = s.data
      /\ Rows!Freed(s).dirty = {} /\ Rows!Freed(s).clean = TRUE
      /\ Rows!Freed(s).dirtyAge = 0 /\ Rows!Freed(s).changeAge = 0
      /\ Rows!Freed(s).flag = "free"
  BY Zenon, <1>1 DEF Shape, Names, Rows!Freed
<1>4. 0 \in 0 .. DirtyMax
  BY RowsAssumption
<1>5. Rows!Freed(s) \in Rows!Struct
  BY <1>2, <1>3, <1>4, StructFields, Zenon
<1> QED
  BY Zenon, <1>3, <1>5

\* DATA_X_save keeps the contents.
LEMMA SavedFields ==
    ASSUME NEW s \in Rows!Struct
    PROVE  /\ Rows!Saved(s) \in Rows!Struct
           /\ Rows!Saved(s).rec = s.rec /\ Rows!Saved(s).data = s.data
           /\ Rows!Saved(s).dirty = {} /\ Rows!Saved(s).clean = TRUE
           /\ Rows!Saved(s).flag = s.flag
<1>1. Shape(s)
  BY Zenon, StructFields
<1>2. Shape(Rows!Saved(s))
  BY Zenon, <1>1 DEF Shape, Names, Rows!Saved
<1>3. /\ Rows!Saved(s).rec = s.rec /\ Rows!Saved(s).data = s.data
      /\ Rows!Saved(s).dirty = {} /\ Rows!Saved(s).clean = TRUE
      /\ Rows!Saved(s).dirtyAge = 0 /\ Rows!Saved(s).changeAge = 0
      /\ Rows!Saved(s).flag = s.flag
  BY Zenon, <1>1 DEF Shape, Names, Rows!Saved
<1>4. 0 \in 0 .. DirtyMax
  BY RowsAssumption
<1>5. Rows!Saved(s) \in Rows!Struct
  BY <1>2, <1>3, <1>4, StructFields, Zenon
<1> QED
  BY Zenon, <1>3, <1>5

\* DATA_X_release and DATA_X_delete set data_flag and nothing else.
LEMMA FlagFields ==
    ASSUME NEW s \in Rows!Struct, NEW fl \in {"none", "delete", "release", "free"}
    PROVE  LET t == [s EXCEPT !.flag = fl]
           IN /\ t \in Rows!Struct
              /\ t.rec = s.rec /\ t.data = s.data /\ t.dirty = s.dirty
              /\ t.clean = s.clean /\ t.dirtyAge = s.dirtyAge
              /\ t.changeAge = s.changeAge /\ t.flag = fl
  BY Zenon DEF Rows!Struct

\* As time passes the ages of a changed structure grow.
LEMMA AgedFields ==
    ASSUME NEW s \in Rows!Struct, NEW d \in Nat
    PROVE  /\ Rows!Aged(s, d) \in Rows!Struct
           /\ Rows!Aged(s, d).rec = s.rec /\ Rows!Aged(s, d).data = s.data
           /\ Rows!Aged(s, d).dirty = s.dirty /\ Rows!Aged(s, d).clean = s.clean
           /\ Rows!Aged(s, d).flag = s.flag
           /\ ~s.clean => \/ Rows!Aged(s, d).changeAge = s.changeAge + d
                          \/ Rows!Aged(s, d).changeAge = DirtyMax
<1>1. /\ s.dirtyAge \in 0 .. DirtyMax /\ s.changeAge \in 0 .. DirtyMax /\ DirtyMax \in Nat
      /\ s.clean \in BOOLEAN
  BY Zenon, RowsAssumption DEF Rows!Struct
<1> DEFINE da == IF s.clean THEN 0 ELSE Rows!Older(s.dirtyAge, d, DirtyMax)
           ca == IF s.clean THEN 0 ELSE Rows!Older(s.changeAge, d, DirtyMax)
<1>2. da \in 0 .. DirtyMax /\ ca \in 0 .. DirtyMax
  BY <1>1 DEF Rows!Older
<1>3. ~s.clean => ca = s.changeAge + d \/ ca = DirtyMax
  BY Zenon, <1>1 DEF Rows!Older
<1>4. Rows!Aged(s, d) = [s EXCEPT !.dirtyAge = da, !.changeAge = ca]
  BY Zenon DEF Rows!Aged
<1> HIDE DEF da, ca
<1> QED
  BY Zenon, <1>2, <1>3, <1>4 DEF Rows!Struct

\* The columns that DATA_X_save writes are columns of a row.
LEMMA WrittenData ==
    ASSUME NEW s \in Rows!Struct, NEW d \in Rows!Data
    PROVE  /\ Rows!Written(s, d) \in Rows!Data
           /\ \A f \in Fields : Rows!Written(s, d)[f] =
                                    IF f \in s.dirty THEN s.data[f] ELSE d[f]
  BY Zenon DEF Rows!Written, Rows!Struct, Rows!Data
-----------------------------------------------------------------------------
(* The steps.                                                              *)

\* DATA_X_flush: it frees what was released or deleted and nothing in use, writes
\* what is due, and leaves on the list what is not.
LEMMA FlushKeeps ==
    ASSUME Rows!TypeOK,
           NEW objs \in [Objs -> Rows!Struct], NEW ls \in SUBSET Objs,
           Rows!Flush(objs, ls),
           struct' \in [Records -> Objs \cup {NoObj}],
           idle' \in [Records -> 0 .. UnloadTime + 1],
           step' = "idle",
           Own(objs, ls, struct'), Tidy(objs),
           ~failed => Behind(objs, ls, struct', row, idle')
    PROVE  RInv'
<1> DEFINE due == {o \in ls : Rows!Due(objs[o])}
           dirty == {o \in due : objs[o].dirty # {} /\ objs[o].rec \in DOMAIN row}
           W(lost, r) == {o \in dirty \ lost : objs[o].rec = r}
<1>1. PICK lost \in SUBSET dirty :
          /\ failed' = (failed \/ lost # {})
          /\ obj' = [o \in Objs |->
                CASE o \in ls /\ objs[o].flag \in {"delete", "release"} ->
                        Rows!Freed(objs[o])
                  [] o \in due \ lost /\ objs[o].flag = "none" -> Rows!Saved(objs[o])
                  [] OTHER -> objs[o]]
          /\ row' = [r \in DOMAIN row |->
                IF W(lost, r) = {} THEN row[r]
                ELSE Rows!Written(objs[CHOOSE o \in W(lost, r) : TRUE], row[r])]
          /\ list' = {o \in ls : objs[o].flag = "none"} \ due
  BY Zenon DEF Rows!Flush
<1> DEFINE w(r) == W(lost, r)
<1>2. /\ due \subseteq ls /\ dirty \subseteq due
      /\ \A o \in ls : o \in due <=> Rows!Due(objs[o])
      /\ \A o \in due : o \in dirty <=> objs[o].dirty # {} /\ objs[o].rec \in DOMAIN row
      /\ \A r : \A o : o \in w(r) <=> o \in dirty /\ o \notin lost /\ objs[o].rec = r
  BY Zenon
<1>3. row' = [r \in DOMAIN row |->
                IF w(r) = {} THEN row[r]
                ELSE Rows!Written(objs[CHOOSE o \in w(r) : TRUE], row[r])]
  BY Zenon, <1>1
<1> HIDE DEF due, dirty, W, w
<1>4. \A o \in Objs :
          /\ objs[o] \in Rows!Struct /\ objs[o].rec \in Records
          /\ objs[o].flag \in {"none", "delete", "release", "free"}
  BY Zenon, StructFields
<1>5. \A o \in Objs :
          \/ objs[o].flag \in {"delete", "release"} /\ obj'[o] = Rows!Freed(objs[o])
          \/ objs[o].flag = "none" /\ o \in due \ lost /\ obj'[o] = Rows!Saved(objs[o])
          \/ /\ objs[o].flag \in {"none", "free"}
             /\ objs[o].flag = "none" => o \notin due \ lost
             /\ obj'[o] = objs[o]
  BY Zenon, <1>1, <1>4 DEF Own
<1>6. obj' \in [Objs -> Rows!Struct]
  <2>1. \A o \in Objs : obj'[o] \in Rows!Struct
    <3>1. \A o \in Objs : /\ Rows!Freed(objs[o]) \in Rows!Struct
                          /\ Rows!Saved(objs[o]) \in Rows!Struct
      BY Zenon, <1>4, FreedFields, SavedFields
    <3> QED
      BY Zenon, <1>4, <1>5, <3>1
  <2> QED
    BY Zenon, <1>1, <2>1
<1>7. \A o \in Objs :
          /\ obj'[o].rec = objs[o].rec
          /\ obj'[o].flag = IF objs[o].flag = "none" THEN "none" ELSE "free"
          /\ objs[o].flag = "none" => obj'[o].data = objs[o].data
          /\ obj'[o].dirty # {} => obj'[o] = objs[o]
          /\ obj'[o].clean <=> obj'[o].dirty = {}
  <2> SUFFICES ASSUME NEW o \in Objs
               PROVE  /\ obj'[o].rec = objs[o].rec
                      /\ obj'[o].flag = IF objs[o].flag = "none" THEN "none" ELSE "free"
                      /\ objs[o].flag = "none" => obj'[o].data = objs[o].data
                      /\ obj'[o].dirty # {} => obj'[o] = objs[o]
                      /\ obj'[o].clean <=> obj'[o].dirty = {}
    BY Zenon
  <2>1. CASE objs[o].flag \in {"delete", "release"} /\ obj'[o] = Rows!Freed(objs[o])
    <3> DEFINE t == Rows!Freed(objs[o])
    <3>1. /\ t.rec = objs[o].rec /\ t.dirty = {} /\ t.clean = TRUE
          /\ t.flag = "free"
      BY Zenon, <1>4, FreedFields
    <3>2. obj'[o] = t /\ objs[o].flag # "none"
      BY Zenon, <2>1
    <3> HIDE DEF t
    <3> QED
      BY <3>1, <3>2, Zenon
  <2>2. CASE objs[o].flag = "none" /\ obj'[o] = Rows!Saved(objs[o])
    <3> DEFINE t == Rows!Saved(objs[o])
    <3>1. /\ t.rec = objs[o].rec /\ t.data = objs[o].data /\ t.dirty = {}
          /\ t.clean = TRUE /\ t.flag = objs[o].flag
      BY Zenon, <1>4, SavedFields
    <3>2. obj'[o] = t /\ objs[o].flag = "none"
      BY Zenon, <2>2
    <3> HIDE DEF t
    <3> QED
      BY <3>1, <3>2, Zenon
  <2>3. CASE objs[o].flag \in {"none", "free"} /\ obj'[o] = objs[o]
    BY Zenon, <2>3 DEF Tidy
  <2> QED
    BY Zenon, <1>5, <2>1, <2>2, <2>3
<1>8. Own(obj, list, struct)'
  <2>1. \A o \in Objs : o \in list' => objs[o].flag = "none"
    BY Zenon, <1>1
  <2> QED
    BY <1>7, <2>1 DEF Own
<1>9. Tidy(obj')
  BY Zenon, <1>7 DEF Tidy
<1>10. /\ DOMAIN row' = DOMAIN row
       /\ \A r \in DOMAIN row' : row'[r] \in Rows!Data
       /\ DOMAIN row' \subseteq Records /\ row' \in [DOMAIN row' -> Rows!Data]
  <2>1. DOMAIN row' = DOMAIN row /\ DOMAIN row \subseteq Records
    BY Zenon, <1>3 DEF Rows!TypeOK
  <2>2. \A r \in DOMAIN row : row[r] \in Rows!Data
    BY Zenon DEF Rows!TypeOK
  <2>3. \A r \in DOMAIN row : row'[r] \in Rows!Data
    <3> SUFFICES ASSUME NEW r \in DOMAIN row
                 PROVE  row'[r] \in Rows!Data
      BY Zenon
    <3>1. CASE w(r) = {}
      BY Zenon, <1>3, <2>2, <3>1
    <3>2. CASE w(r) # {}
      <4>1. (CHOOSE o \in w(r) : TRUE) \in w(r)
        BY Zenon, <3>2
      <4>2. w(r) \subseteq Objs
        BY Zenon, <1>2
      <4> QED
        BY Zenon, <1>3, <1>4, <2>2, <3>2, <4>1, <4>2, WrittenData
    <3> QED
      BY Zenon, <3>1, <3>2
  <2> QED
    BY Zenon, <1>3, <2>1, <2>3
<1>11. Rows!TypeOK'
  <2>1. list' \subseteq Objs /\ failed' \in BOOLEAN
    BY Zenon, <1>1 DEF Rows!TypeOK
  <2> QED
    BY Zenon, <1>6, <1>10, <2>1 DEF Rows!TypeOK
<1>12. ASSUME ~failed'
       PROVE  /\ Behind(obj, list, struct, row, idle)'
              /\ \A o \in Objs : obj'[o].dirty # {} =>
                     /\ obj'[o].flag = "none"
                     /\ obj'[o].dirtyAge < DirtyMax /\ obj'[o].changeAge < QuietMax
  <2>1. ~failed /\ lost = {} /\ Behind(objs, ls, struct', row, idle')
    BY Zenon, <1>1, <1>12
  <2>2. \A o \in Objs : obj'[o].dirty # {} =>
            /\ obj'[o] = objs[o] /\ o \in ls /\ o \notin due
            /\ objs[o].flag = "none" /\ ~Rows!Due(objs[o])
    <3> SUFFICES ASSUME NEW o \in Objs, obj'[o].dirty # {}
                 PROVE  /\ obj'[o] = objs[o] /\ o \in ls /\ o \notin due
                        /\ objs[o].flag = "none" /\ ~Rows!Due(objs[o])
      BY Zenon
    <3>1. obj'[o] = objs[o]
      BY Zenon, <1>7
    <3>2. o \in ls /\ objs[o].flag \in {"none", "release"}
      BY Zenon, <2>1, <3>1 DEF Behind
    <3>3. Rows!Freed(objs[o]).dirty = {} /\ Rows!Saved(objs[o]).dirty = {}
      BY Zenon, <1>4, FreedFields, SavedFields
    <3>4. objs[o].flag = "none" /\ o \notin due
      BY Zenon, <1>5, <2>1, <3>2, <3>3
    <3> QED
      BY Zenon, <1>2, <3>1, <3>2, <3>4
  <2>3. \A o \in Objs : obj'[o].dirty # {} =>
            /\ o \in list' /\ obj'[o].flag = "none"
            /\ obj'[o].dirtyAge < DirtyMax /\ obj'[o].changeAge < QuietMax
    <3>1. \A o \in Objs : objs[o].dirtyAge \in 0 .. DirtyMax /\ objs[o].changeAge \in 0 .. DirtyMax
      BY Zenon, <1>4, StructFields
    <3> QED
      BY <1>1, <2>2, <3>1, RowsAssumption DEF Rows!Due
  <2>4. \A r \in Records : struct'[r] # NoObj =>
            /\ r \in DOMAIN row'
            /\ \A f \in Fields : obj'[struct'[r]].data[f] # row'[r][f] =>
                                     f \in obj'[struct'[r]].dirty
            /\ obj'[struct'[r]].dirty # {} =>
                   idle'[r] <= obj'[struct'[r]].changeAge
    <3> SUFFICES ASSUME NEW r \in Records, struct'[r] # NoObj
                 PROVE  /\ r \in DOMAIN row'
                        /\ \A f \in Fields : obj'[struct'[r]].data[f] # row'[r][f] =>
                                                 f \in obj'[struct'[r]].dirty
                        /\ obj'[struct'[r]].dirty # {} =>
                               idle'[r] <= obj'[struct'[r]].changeAge
      BY Zenon
    <3> DEFINE o == struct'[r]
    <3>1. o \in Objs /\ objs[o].flag = "none" /\ objs[o].rec = r /\ r \in DOMAIN row
      BY <2>1 DEF Own, Behind
    <3>2. \A p \in w(r) : p = o
      BY <1>2, <2>1, <3>1 DEF Behind
    <3>3. \A f \in Fields : objs[o].data[f] # row[r][f] => f \in objs[o].dirty
      BY Zenon, <2>1 DEF Behind
    <3>4. obj'[o].data = objs[o].data /\ (obj'[o].dirty # {} => obj'[o] = objs[o])
      BY Zenon, <1>7, <3>1
    <3> HIDE DEF o
    <3>5. \A f \in Fields : obj'[o].data[f] # row'[r][f] => f \in obj'[o].dirty
      <4>1. CASE w(r) = {}
        <5>1. row'[r] = row[r]
          BY Zenon, <1>3, <3>1, <4>1
        <5>2. CASE o \in due
          <6>1. objs[o].dirty = {}
            BY Zenon, <1>2, <2>1, <3>1, <4>1, <5>2
          <6> QED
            BY Zenon, <3>3, <3>4, <5>1, <6>1
        <5>3. CASE o \notin due
          <6>1. obj'[o] = objs[o]
            BY Zenon, <1>5, <3>1, <5>3
          <6> QED
            BY Zenon, <3>3, <5>1, <6>1
        <5> QED
          BY Zenon, <5>2, <5>3
      <4>2. CASE w(r) # {}
        <5>1. (CHOOSE p \in w(r) : TRUE) = o
          BY Zenon, <3>2, <4>2
        <5>2. row'[r] = Rows!Written(objs[o], row[r]) /\ row[r] \in Rows!Data
          BY Zenon, <1>3, <3>1, <4>2, <5>1 DEF Rows!TypeOK
        <5>3. \A f \in Fields : row'[r][f] =
                  IF f \in objs[o].dirty THEN objs[o].data[f] ELSE row[r][f]
          BY <1>4, <3>1, <5>2, WrittenData
        <5> QED
          BY Zenon, <3>3, <3>4, <5>3
      <4> QED
        BY Zenon, <4>1, <4>2
    <3>6. obj'[o].dirty # {} => idle'[r] <= obj'[o].changeAge
      <4> SUFFICES ASSUME obj'[o].dirty # {}
                   PROVE  idle'[r] <= obj'[o].changeAge
        BY Zenon
      <4>1. obj'[o] = objs[o] /\ obj'[o].changeAge < QuietMax
        BY Zenon, <2>3, <3>1, <3>4
      <4>2. idle'[r] <= objs[o].changeAge \/ objs[o].changeAge >= QuietMax
        BY Zenon, <2>1, <4>1 DEF Behind, o
      <4>3. objs[o].changeAge \in Nat /\ QuietMax \in Nat
        BY <1>4, <3>1, StructFields, RowsAssumption
      <4> QED
        BY <4>1, <4>2, <4>3
    <3> QED
      BY Zenon, <1>10, <3>1, <3>5, <3>6 DEF o
  <2>5. \A o \in Objs : obj'[o].dirty # {} => struct'[obj'[o].rec] \in {NoObj, o}
    BY Zenon, <2>1, <2>2 DEF Behind
  <2> QED
    BY Zenon, <2>3, <2>4, <2>5 DEF Behind
<1> QED
  BY Zenon, <1>8, <1>9, <1>11, <1>12 DEF RInv

\* What is used of the invariant in every step.
LEMMA RInvTypes ==
    ASSUME RInv
    PROVE  /\ obj \in [Objs -> Rows!Struct]
           /\ struct \in [Records -> Objs \cup {NoObj}]
           /\ DOMAIN row \subseteq Records /\ \A r \in DOMAIN row : row[r] \in Rows!Data
           /\ list \subseteq Objs
           /\ idle \in [Records -> 0 .. UnloadTime + 1]
           /\ step \in {"idle", "request"} /\ failed \in BOOLEAN
           /\ \A o \in Objs : /\ obj[o] \in Rows!Struct /\ obj[o].rec \in Records
                              /\ obj[o].flag \in {"none", "delete", "release", "free"}
<1>1. Rows!TypeOK
  BY Zenon DEF RInv
<1>2. obj \in [Objs -> Rows!Struct] /\ \A r \in DOMAIN row : row[r] \in Rows!Data
  BY Zenon, <1>1 DEF Rows!TypeOK
<1>3. \A o \in Objs : obj[o] \in Rows!Struct
  BY Zenon, <1>2
<1>4. \A o \in Objs : /\ obj[o].rec \in Records
                      /\ obj[o].flag \in {"none", "delete", "release", "free"}
  BY Zenon, <1>3, StructFields
<1> QED
  BY Zenon, <1>1, <1>2, <1>3, <1>4 DEF Rows!TypeOK

\* DATA_X_release of the players in gone: their structures are on the list.
LEMMA MarkedKeeps ==
    ASSUME RInv, NEW gone \in SUBSET Records,
           NEW c, c = [r \in Records |-> IF r \in gone THEN NoObj ELSE struct[r]]
    PROVE  LET objs == Rows!Marked(gone)
               ls == list \cup Rows!Released(gone)
           IN /\ objs \in [Objs -> Rows!Struct] /\ ls \in SUBSET Objs
              /\ c \in [Records -> Objs \cup {NoObj}]
              /\ Own(objs, ls, c) /\ Tidy(objs)
              /\ ~failed => Behind(objs, ls, c, row, idle)
              /\ \A o \in Objs : /\ objs[o].dirty = obj[o].dirty
                                 /\ o \notin Rows!Released(gone) => objs[o] = obj[o]
<1> DEFINE objs == Rows!Marked(gone)
           rel == Rows!Released(gone)
           ls == list \cup rel
<1>1. /\ obj \in [Objs -> Rows!Struct] /\ struct \in [Records -> Objs \cup {NoObj}]
      /\ list \subseteq Objs
      /\ \A o \in Objs : /\ obj[o] \in Rows!Struct /\ obj[o].rec \in Records
                         /\ obj[o].flag \in {"none", "delete", "release", "free"}
  BY Zenon, RInvTypes
<1>2. /\ rel \subseteq Objs
      /\ \A o \in Objs : o \in rel <=> \E r \in gone : struct[r] = o
  BY Zenon, <1>1, RowsAssumption DEF Rows!Released
<1>3. \A o \in Objs :
          /\ o \in rel => objs[o] = [obj[o] EXCEPT !.flag = "release"]
          /\ o \notin rel => objs[o] = obj[o]
  BY Zenon DEF Rows!Marked
<1>4. DOMAIN objs = Objs /\ objs = [o \in Objs |-> objs[o]]
  BY Zenon DEF Rows!Marked
<1> HIDE DEF objs, rel
<1>5. \A o \in Objs :
          /\ objs[o] \in Rows!Struct
          /\ objs[o].rec = obj[o].rec /\ objs[o].data = obj[o].data
          /\ objs[o].dirty = obj[o].dirty /\ objs[o].clean = obj[o].clean
          /\ objs[o].changeAge = obj[o].changeAge
          /\ objs[o].flag = IF o \in rel THEN "release" ELSE obj[o].flag
  <2> SUFFICES ASSUME NEW o \in Objs
               PROVE  /\ objs[o] \in Rows!Struct
                      /\ objs[o].rec = obj[o].rec /\ objs[o].data = obj[o].data
                      /\ objs[o].dirty = obj[o].dirty /\ objs[o].clean = obj[o].clean
                      /\ objs[o].changeAge = obj[o].changeAge
                      /\ objs[o].flag = IF o \in rel THEN "release" ELSE obj[o].flag
    BY Zenon
  <2>1. CASE o \notin rel
    BY Zenon, <1>1, <1>3, <2>1
  <2>2. CASE o \in rel
    <3> DEFINE t == [obj[o] EXCEPT !.flag = "release"]
    <3>1. /\ t \in Rows!Struct
          /\ t.rec = obj[o].rec /\ t.data = obj[o].data /\ t.dirty = obj[o].dirty
          /\ t.clean = obj[o].clean /\ t.changeAge = obj[o].changeAge
          /\ t.flag = "release"
      BY Zenon, <1>1, FlagFields
    <3>2. objs[o] = t
      BY Zenon, <1>3, <2>2
    <3> HIDE DEF t
    <3> QED
      BY Zenon, <2>2, <3>1, <3>2
  <2> QED
    BY Zenon, <2>1, <2>2
<1>6. c \in [Records -> Objs \cup {NoObj}] /\ objs \in [Objs -> Rows!Struct]
  BY Zenon, <1>1, <1>4, <1>5
<1>7. \A r \in Records : c[r] # NoObj => c[r] = struct[r] /\ r \notin gone /\ c[r] \notin rel
  <2> SUFFICES ASSUME NEW r \in Records, c[r] # NoObj, NEW s \in gone, struct[s] = c[r]
               PROVE  FALSE
    BY <1>1, <1>2
  <2>1. c[r] = struct[r] /\ r \notin gone
    BY Zenon
  <2>2. obj[struct[r]].rec = r /\ obj[struct[s]].rec = s
    BY Zenon, <2>1 DEF RInv, Own
  <2> QED
    BY Zenon, <2>1, <2>2
<1>8. Own(objs, ls, c)
  <2>1. \A o \in rel : obj[o].flag = "none"
    BY <1>1, <1>2, RowsAssumption DEF RInv, Own
  <2>2. \A o \in Objs : obj[o].flag = "none" /\ o \notin rel => c[obj[o].rec] = o
    BY Zenon, <1>1, <1>2 DEF RInv, Own
  <2>3. /\ \A r \in Records : struct[r] # NoObj =>
               obj[struct[r]].flag = "none" /\ obj[struct[r]].rec = r
        /\ \A o \in Objs : /\ o \in list => obj[o].flag # "free"
                           /\ obj[o].flag \in {"release", "delete"} => o \in list
    BY Zenon DEF RInv, Own
  <2>4. \A r \in Records : c[r] # NoObj =>
            objs[c[r]].flag = "none" /\ objs[c[r]].rec = r
    BY <1>1, <1>5, <1>7, <2>3
  <2>5. \A o \in Objs :
            /\ o \in ls => objs[o].flag # "free"
            /\ objs[o].flag \in {"release", "delete"} => o \in ls
            /\ objs[o].flag = "none" => c[objs[o].rec] = o
    BY <1>5, <2>2, <2>3
  <2> QED
    BY Zenon, <2>4, <2>5 DEF Own
<1>9. Tidy(objs)
  BY Zenon, <1>5 DEF RInv, Tidy
<1>10. ASSUME ~failed
       PROVE  Behind(objs, ls, c, row, idle)
  <2>1. Behind(obj, list, struct, row, idle)
    BY Zenon, <1>10 DEF RInv
  <2>2. \A o \in Objs : objs[o].dirty # {} =>
            /\ o \in ls /\ objs[o].flag \in {"none", "release"}
            /\ c[objs[o].rec] \in {NoObj, o}
    BY Zenon, <1>1, <1>5, <2>1 DEF Behind
  <2>3. \A r \in Records : c[r] # NoObj =>
            /\ r \in DOMAIN row
            /\ \A f \in Fields :
                   objs[c[r]].data[f] # row[r][f] => f \in objs[c[r]].dirty
            /\ objs[c[r]].dirty # {} =>
                   \/ idle[r] <= objs[c[r]].changeAge
                   \/ objs[c[r]].changeAge >= QuietMax
    BY <1>1, <1>5, <1>7, <2>1 DEF Behind
  <2> QED
    BY Zenon, <2>2, <2>3 DEF Behind
<1> QED
  BY Zenon, <1>1, <1>2, <1>3, <1>5, <1>6, <1>8, <1>9, <1>10 DEF objs, rel

\* process_message: the players that are unloaded have no unwritten changes, since
\* nobody has used them for longer than a change waits.
LEMMA BeginKeeps ==
    ASSUME RInv, Rows!Begin
    PROVE  RInv'
<1> DEFINE gone == Rows!Zombies
           objs == Rows!Marked(gone)
           ls == list \cup Rows!Released(gone)
<1>1. /\ step = "idle" /\ step' = "request" /\ obj' = objs /\ list' = ls
      /\ struct' = [r \in Records |-> IF r \in gone THEN NoObj ELSE struct[r]]
      /\ row' = row /\ idle' = idle /\ failed' = failed
  BY Zenon DEF Rows!Begin
<1>2. gone \in SUBSET Records /\ \A r \in gone : struct[r] # NoObj /\ idle[r] > UnloadTime
  BY Zenon DEF Rows!Zombies
<1> HIDE DEF gone
<1>3. /\ objs \in [Objs -> Rows!Struct] /\ ls \in SUBSET Objs
      /\ struct' \in [Records -> Objs \cup {NoObj}]
      /\ Own(objs, ls, struct') /\ Tidy(objs)
      /\ ~failed => Behind(objs, ls, struct', row, idle)
      /\ \A o \in Objs : /\ objs[o].dirty = obj[o].dirty
                         /\ o \notin Rows!Released(gone) => objs[o] = obj[o]
  BY Zenon, <1>1, <1>2, MarkedKeeps
<1> HIDE DEF objs, ls
<1>4. Rows!TypeOK'
  <2>1. Rows!TypeOK
    BY Zenon DEF RInv
  <2> QED
    BY Zenon, <1>1, <1>3, <2>1 DEF Rows!TypeOK
<1>5. ASSUME ~failed, NEW o \in Objs, obj'[o].dirty # {}
      PROVE  obj'[o].flag = "none"
  <2>1. /\ obj[o].dirty # {} /\ obj[o].flag = "none" /\ obj[o].changeAge < QuietMax
        /\ struct[obj[o].rec] = o
    BY <1>1, <1>3, <1>5 DEF RInv, Own
  <2>2. o \notin Rows!Released(gone)
    <3> SUFFICES ASSUME NEW r \in gone, struct[r] = o
                 PROVE  FALSE
      BY Zenon DEF Rows!Released
    <3>1. r \in Records /\ struct[r] # NoObj /\ idle[r] > UnloadTime
      BY Zenon, <1>2
    <3>2. idle[r] <= obj[o].changeAge \/ obj[o].changeAge >= QuietMax
      BY Zenon, <1>5, <2>1, <3>1 DEF RInv, Behind
    <3>3. obj[o].changeAge \in Nat /\ idle[r] \in Nat
      BY <3>1, RInvTypes, StructFields, RowsAssumption
    <3> QED
      BY <2>1, <3>1, <3>2, <3>3, RowsAssumption
  <2> QED
    BY Zenon, <1>1, <1>3, <2>1, <2>2
<1> QED
  BY Zenon, <1>1, <1>3, <1>4, <1>5 DEF RInv

\* DATA_X_load and DATA_X_new: r gets the structure o, which is equal to its row.
LEMMA PlaceKeeps ==
    ASSUME RInv, NEW r \in Records, NEW o \in Objs, NEW d \in Rows!Data,
           step = "request", struct[r] = NoObj, obj[o].flag = "free",
           obj' = [obj EXCEPT ![o] = Rows!Fresh(r, d)],
           struct' = [struct EXCEPT ![r] = o],
           idle' = [idle EXCEPT ![r] = 0],
           list' = list, step' = step, failed' = failed,
           DOMAIN row' = DOMAIN row \cup {r}, row' \in [DOMAIN row' -> Rows!Data],
           row'[r] = d, \A s \in DOMAIN row \ {r} : row'[s] = row[s]
    PROVE  RInv'
<1>1. /\ obj \in [Objs -> Rows!Struct] /\ struct \in [Records -> Objs \cup {NoObj}]
      /\ DOMAIN row \subseteq Records /\ list \subseteq Objs
      /\ idle \in [Records -> 0 .. UnloadTime + 1]
      /\ \A p \in Objs : obj[p].rec \in Records
  BY Zenon, RInvTypes
<1> DEFINE t == Rows!Fresh(r, d)
<1>2. /\ t \in Rows!Struct /\ t.rec = r /\ t.data = d /\ t.dirty = {} /\ t.clean = TRUE
      /\ t.flag = "none"
  <2>1. t \in Rows!Struct
    BY Zenon, FreshFields
  <2> QED
    BY Zenon, <2>1 DEF Rows!Fresh
<1>3. obj' = [obj EXCEPT ![o] = t]
  BY Zenon
<1> HIDE DEF t
<1>4. /\ obj'[o] = t /\ \A p \in Objs \ {o} : obj'[p] = obj[p]
      /\ obj' \in [Objs -> Rows!Struct]
      /\ struct'[r] = o /\ \A s \in Records \ {r} : struct'[s] = struct[s]
      /\ struct' \in [Records -> Objs \cup {NoObj}]
  BY <1>1, <1>2, <1>3
<1>5. idle' \in [Records -> 0 .. UnloadTime + 1] /\ \A s \in Records \ {r} : idle'[s] = idle[s]
  <2>1. 0 \in 0 .. UnloadTime + 1
    BY RowsAssumption
  <2> QED
    BY Zenon, <1>1, <2>1
<1>6. Rows!TypeOK'
  <2>1. Rows!TypeOK
    BY Zenon DEF RInv
  <2> QED
    BY Zenon, <1>1, <1>4, <1>5, <2>1 DEF Rows!TypeOK
<1>7. \A s \in Records \ {r} : struct[s] # NoObj => struct[s] \in Objs \ {o}
  BY <1>1 DEF RInv, Own
<1>8. o # NoObj
  BY Zenon, RowsAssumption
<1>9. Own(obj, list, struct)'
  <2>1. \A s \in Records : struct'[s] # NoObj =>
            obj'[struct'[s]].flag = "none" /\ obj'[struct'[s]].rec = s
    BY <1>2, <1>4, <1>7 DEF RInv, Own
  <2>2. \A p \in Objs \ {o} : obj[p].flag = "none" => obj[p].rec # r
    BY <1>8, RowsAssumption DEF RInv, Own
  <2>3. \A p \in Objs : /\ p \in list' => obj'[p].flag # "free"
                        /\ obj'[p].flag \in {"release", "delete"} => p \in list'
                        /\ obj'[p].flag = "none" => struct'[obj'[p].rec] = p
    BY <1>1, <1>2, <1>4, <2>2 DEF RInv, Own
  <2> QED
    BY Zenon, <2>1, <2>3 DEF Own
<1>10. Tidy(obj')
  <2>1. obj'[o].clean <=> obj'[o].dirty = {}
    BY <1>2, <1>4, Zenon
  <2> QED
    BY Zenon, <1>4, <2>1 DEF RInv, Tidy
<1>11. ASSUME ~failed
       PROVE  /\ Behind(obj, list, struct, row, idle)'
              /\ \A p \in Objs : obj'[p].dirty # {} => obj'[p].flag = "none"
  <2>1. Behind(obj, list, struct, row, idle)
    BY Zenon, <1>11 DEF RInv
  <2>2. \A p \in Objs : obj'[p].dirty # {} =>
            p # o /\ obj'[p] = obj[p] /\ obj[p].flag = "none" /\ struct[obj[p].rec] = p
    BY <1>2, <1>4, <1>11 DEF RInv, Own
  <2>3. \A p \in Objs : obj'[p].dirty # {} =>
            p \in list' /\ struct'[obj'[p].rec] \in {NoObj, p}
    BY <1>1, <1>4, <2>1, <2>2, RowsAssumption DEF Behind
  <2>4. \A s \in Records \ {r} : struct'[s] # NoObj =>
            /\ s \in DOMAIN row'
            /\ \A f \in Fields :
                   obj'[struct'[s]].data[f] # row'[s][f] => f \in obj'[struct'[s]].dirty
            /\ obj'[struct'[s]].dirty # {} =>
                   \/ idle'[s] <= obj'[struct'[s]].changeAge
                   \/ obj'[struct'[s]].changeAge >= QuietMax
    BY <1>4, <1>5, <1>7, <2>1 DEF Behind
  <2>5. /\ r \in DOMAIN row' /\ obj'[struct'[r]].dirty = {}
        /\ \A f \in Fields : obj'[struct'[r]].data[f] = row'[r][f]
    BY Zenon, <1>2, <1>4
  <2> QED
    BY <2>2, <2>3, <2>4, <2>5 DEF Behind
<1> QED
  BY Zenon, <1>6, <1>9, <1>10, <1>11 DEF RInv

\* DATA_X_load: a structure for a row that exists.
LEMMA LoadKeeps ==
    ASSUME RInv, NEW r \in Records, NEW o \in Objs, Rows!Load(r, o)
    PROVE  RInv'
<1>1. row[r] \in Rows!Data /\ row \in [DOMAIN row -> Rows!Data]
  BY Zenon DEF RInv, Rows!TypeOK, Rows!Load
<1>2. DOMAIN row' = DOMAIN row \cup {r} /\ row' = row
  BY Zenon DEF Rows!Load
<1> QED
  BY Zenon, <1>1, <1>2, PlaceKeeps DEF Rows!Load

\* DATA_X_new: a structure for a row that is inserted.
LEMMA NewKeeps ==
    ASSUME RInv, NEW r \in Records, NEW o \in Objs, NEW d \in Rows!Data, Rows!New(r, o, d)
    PROVE  RInv'
<1>1. \A s \in DOMAIN row : row[s] \in Rows!Data
  BY Zenon, RInvTypes
<1>2. row' = [s \in DOMAIN row \cup {r} |-> IF s = r THEN d ELSE row[s]]
  BY Zenon DEF Rows!New
<1>3. /\ DOMAIN row' = DOMAIN row \cup {r} /\ row' \in [DOMAIN row' -> Rows!Data]
      /\ row'[r] = d /\ \A s \in DOMAIN row \ {r} : row'[s] = row[s]
  BY Zenon, <1>1, <1>2
<1> QED
  BY Zenon, <1>3, PlaceKeeps DEF Rows!New

\* DATA_X_update_f: the column is marked, and the structure is on the list.
LEMMA UpdateKeeps ==
    ASSUME RInv, NEW r \in Records, NEW f \in Fields, NEW v \in Values, Rows!Update(r, f, v)
    PROVE  RInv'
<1>1. /\ obj \in [Objs -> Rows!Struct] /\ struct \in [Records -> Objs \cup {NoObj}]
      /\ list \subseteq Objs /\ idle \in [Records -> 0 .. UnloadTime + 1]
      /\ \A p \in Objs : obj[p] \in Rows!Struct /\ obj[p].rec \in Records
  BY Zenon, RInvTypes
<1> DEFINE o == struct[r]
           t == [obj[o] EXCEPT !.data[f] = v, !.dirty = @ \cup {f}, !.clean = FALSE,
                               !.changeAge = 0]
<1>2. /\ o \in Objs /\ obj[o].flag = "none" /\ obj[o].rec = r /\ obj[o] \in Rows!Struct
      /\ step = "request"
  BY <1>1 DEF Rows!Update, RInv, Own
<1>3. /\ obj' = [obj EXCEPT ![o] = t] /\ list' = list \cup {o}
      /\ idle' = [idle EXCEPT ![r] = 0] /\ UNCHANGED <<struct, row, step, failed>>
  BY Zenon, <1>1, <1>2 DEF Rows!Update
<1>4. /\ t.rec = r /\ t.flag = "none" /\ t.clean = FALSE /\ t.changeAge = 0
      /\ t.dirtyAge = obj[o].dirtyAge /\ t.dirty = obj[o].dirty \cup {f}
      /\ t.data = [obj[o].data EXCEPT ![f] = v]
      /\ Shape(t)
  <2>1. Shape(obj[o])
    BY Zenon, <1>2, StructFields
  <2>2. Shape(t)
    BY Zenon, <2>1 DEF Shape, Names
  <2>3. t.rec = obj[o].rec /\ t.flag = obj[o].flag /\ t.dirtyAge = obj[o].dirtyAge
    BY Zenon, <2>1 DEF Shape, Names
  <2>4. t.clean = FALSE /\ t.changeAge = 0 /\ t.dirty = obj[o].dirty \cup {f}
    BY Zenon, <2>1 DEF Shape, Names
  <2>5. t.data = [obj[o].data EXCEPT ![f] = v]
    BY Zenon, <2>1 DEF Shape, Names
  <2> QED
    BY Zenon, <1>2, <2>2, <2>3, <2>4, <2>5
<1> HIDE DEF t, o
<1>5. obj[o].data \in Rows!Data /\ obj[o].dirty \subseteq Fields /\ obj[o].dirtyAge \in 0 .. DirtyMax
  BY Zenon, <1>2, StructFields
<1>6. t.data \in Rows!Data /\ t.data[f] = v /\ \A g \in Fields \ {f} : t.data[g] = obj[o].data[g]
  BY Zenon, <1>4, <1>5 DEF Rows!Data
<1>7. t \in Rows!Struct
  <2>1. t.changeAge \in 0 .. DirtyMax /\ t.dirty \subseteq Fields
    BY <1>4, <1>5, RowsAssumption
  <2>2. t.clean \in BOOLEAN /\ t.flag \in {"none", "delete", "release", "free"}
    BY ZenonT(30), <1>4
  <2> QED
    BY <1>4, <1>5, <1>6, <2>1, <2>2, StructFields, Zenon
<1>8. /\ obj'[o] = t /\ \A p \in Objs \ {o} : obj'[p] = obj[p]
      /\ obj' \in [Objs -> Rows!Struct]
  BY Zenon, <1>1, <1>2, <1>3, <1>7
<1>9. /\ idle' \in [Records -> 0 .. UnloadTime + 1] /\ idle'[r] = 0
      /\ \A s \in Records \ {r} : idle'[s] = idle[s]
  <2>1. 0 \in 0 .. UnloadTime + 1
    BY RowsAssumption
  <2> QED
    BY Zenon, <1>1, <1>3, <2>1
<1>10. Rows!TypeOK'
  <2>1. Rows!TypeOK
    BY Zenon DEF RInv
  <2> QED
    BY Zenon, <1>1, <1>2, <1>3, <1>8, <1>9, <2>1 DEF Rows!TypeOK
<1>11. Own(obj, list, struct)'
  BY <1>1, <1>2, <1>3, <1>4, <1>8 DEF RInv, Own
<1>12. Tidy(obj')
  <2>1. obj'[o].clean <=> obj'[o].dirty = {}
    BY Zenon, <1>4, <1>8
  <2> QED
    BY Zenon, <1>8, <2>1 DEF RInv, Tidy
<1>13. \A s \in Records \ {r} : struct[s] # NoObj => struct[s] \in Objs \ {o}
  BY SMTT(30), <1>1, <1>2 DEF RInv, Own
<1>14. ASSUME ~failed
       PROVE  /\ Behind(obj, list, struct, row, idle)'
              /\ \A p \in Objs : obj'[p].dirty # {} => obj'[p].flag = "none"
  <2>1. Behind(obj, list, struct, row, idle)
    BY Zenon, <1>14 DEF RInv
  <2>2. \A p \in Objs : obj'[p].dirty # {} => obj'[p].flag = "none"
    BY Zenon, <1>4, <1>8, <1>14 DEF RInv
  <2>3. \A p \in Objs : obj'[p].dirty # {} =>
            p \in list' /\ struct'[obj'[p].rec] \in {NoObj, p}
    BY Zenon, <1>3, <1>4, <1>8, <2>1 DEF Behind, o
  <2>4. \A s \in Records \ {r} : struct'[s] # NoObj =>
            /\ s \in DOMAIN row'
            /\ \A g \in Fields :
                   obj'[struct'[s]].data[g] # row'[s][g] => g \in obj'[struct'[s]].dirty
            /\ obj'[struct'[s]].dirty # {} =>
                   \/ idle'[s] <= obj'[struct'[s]].changeAge
                   \/ obj'[struct'[s]].changeAge >= QuietMax
    BY Zenon, <1>3, <1>8, <1>9, <1>13, <2>1 DEF Behind
  <2>5. /\ r \in DOMAIN row'
        /\ \A g \in Fields : t.data[g] # row'[r][g] => g \in t.dirty
    <3>1. /\ r \in DOMAIN row
          /\ \A g \in Fields : obj[o].data[g] # row[r][g] => g \in obj[o].dirty
      BY Zenon, <1>2, <2>1, RowsAssumption DEF Behind, o
    <3> QED
      BY Zenon, <1>3, <1>4, <1>6, <3>1
  <2>6. struct'[r] = o /\ idle'[r] <= t.changeAge
    BY <1>3, <1>4, <1>9 DEF o
  <2> QED
    BY SMTT(30), <1>8, <2>2, <2>3, <2>4, <2>5, <2>6 DEF Behind
<1> QED
  BY Zenon, <1>2, <1>3, <1>10, <1>11, <1>12, <1>14 DEF RInv

\* DATA_X_delete: the row is gone, and the structure waits to be freed.
LEMMA DeleteKeeps ==
    ASSUME RInv, NEW r \in Records, Rows!Delete(r)
    PROVE  RInv'
<1>1. /\ obj \in [Objs -> Rows!Struct] /\ struct \in [Records -> Objs \cup {NoObj}]
      /\ list \subseteq Objs /\ idle \in [Records -> 0 .. UnloadTime + 1]
      /\ DOMAIN row \subseteq Records /\ \A s \in DOMAIN row : row[s] \in Rows!Data
      /\ \A p \in Objs : obj[p] \in Rows!Struct /\ obj[p].rec \in Records
  BY Zenon, RInvTypes
<1> DEFINE o == struct[r]
           t == [Rows!Saved(obj[o]) EXCEPT !.flag = "delete"]
<1>2. /\ o \in Objs /\ obj[o].flag = "none" /\ obj[o].rec = r /\ obj[o] \in Rows!Struct
      /\ step = "request"
  BY <1>1 DEF Rows!Delete, RInv, Own
<1>3. /\ obj' = [obj EXCEPT ![o] = t] /\ list' = list \cup {o}
      /\ row' = [s \in DOMAIN row \ {r} |-> row[s]]
      /\ struct' = [struct EXCEPT ![r] = NoObj]
      /\ idle' = [idle EXCEPT ![r] = 0] /\ step' = step /\ failed' = failed
  BY Zenon DEF Rows!Delete
<1>4. /\ t \in Rows!Struct /\ t.rec = r /\ t.dirty = {} /\ t.clean = TRUE
      /\ t.flag = "delete"
  <2>1. /\ Rows!Saved(obj[o]) \in Rows!Struct /\ Rows!Saved(obj[o]).rec = r
        /\ Rows!Saved(obj[o]).dirty = {} /\ Rows!Saved(obj[o]).clean = TRUE
    BY Zenon, <1>2, SavedFields
  <2> QED
    BY Zenon, <2>1, FlagFields
<1> HIDE DEF t, o
<1>5. /\ obj'[o] = t /\ \A p \in Objs \ {o} : obj'[p] = obj[p]
      /\ obj' \in [Objs -> Rows!Struct]
      /\ struct'[r] = NoObj /\ \A s \in Records \ {r} : struct'[s] = struct[s]
      /\ struct' \in [Records -> Objs \cup {NoObj}]
  BY Zenon, <1>1, <1>2, <1>3, <1>4
<1>6. /\ DOMAIN row' = DOMAIN row \ {r} /\ \A s \in DOMAIN row \ {r} : row'[s] = row[s]
      /\ row' \in [DOMAIN row' -> Rows!Data]
  BY Zenon, <1>1, <1>3
<1>7. /\ idle' \in [Records -> 0 .. UnloadTime + 1]
      /\ \A s \in Records \ {r} : idle'[s] = idle[s]
  <2>1. 0 \in 0 .. UnloadTime + 1
    BY RowsAssumption
  <2> QED
    BY Zenon, <1>1, <1>3, <2>1
<1>8. Rows!TypeOK'
  <2>1. Rows!TypeOK
    BY Zenon DEF RInv
  <2> QED
    BY Zenon, <1>1, <1>2, <1>3, <1>5, <1>6, <1>7, <2>1 DEF Rows!TypeOK
<1>9. \A s \in Records \ {r} : struct[s] # NoObj => struct[s] \in Objs \ {o}
  BY <1>1, <1>2 DEF RInv, Own
<1>10. \A p \in Objs \ {o} : obj[p].flag = "none" => obj[p].rec # r
  BY Zenon DEF RInv, Own, o
<1>11. Own(obj, list, struct)'
  <2>1. \A s \in Records : struct'[s] # NoObj =>
            obj'[struct'[s]].flag = "none" /\ obj'[struct'[s]].rec = s
    BY SMTT(30), <1>5, <1>9 DEF RInv, Own
  <2>2. \A p \in Objs : /\ p \in list' => obj'[p].flag # "free"
                        /\ obj'[p].flag \in {"release", "delete"} => p \in list'
                        /\ obj'[p].flag = "none" => struct'[obj'[p].rec] = p
    BY SMTT(30), <1>1, <1>3, <1>4, <1>5, <1>10 DEF RInv, Own
  <2> QED
    BY Zenon, <2>1, <2>2 DEF Own
<1>12. Tidy(obj')
  <2>1. obj'[o].clean <=> obj'[o].dirty = {}
    BY <1>4, <1>5, Zenon
  <2> QED
    BY Zenon, <1>5, <2>1 DEF RInv, Tidy
<1>13. ASSUME ~failed
       PROVE  /\ Behind(obj, list, struct, row, idle)'
              /\ \A p \in Objs : obj'[p].dirty # {} => obj'[p].flag = "none"
  <2>1. Behind(obj, list, struct, row, idle)
    BY Zenon, <1>13 DEF RInv
  <2>2. \A p \in Objs : obj'[p].dirty # {} => obj'[p].flag = "none"
    BY <1>4, <1>5, <1>13 DEF RInv
  <2>3. \A p \in Objs : obj'[p].dirty # {} =>
            p \in list' /\ struct'[obj'[p].rec] \in {NoObj, p}
    BY SMTT(30), <1>1, <1>3, <1>4, <1>5, <2>1 DEF Behind
  <2>4. \A s \in Records : struct'[s] # NoObj =>
            /\ s \in DOMAIN row'
            /\ \A g \in Fields :
                   obj'[struct'[s]].data[g] # row'[s][g] => g \in obj'[struct'[s]].dirty
            /\ obj'[struct'[s]].dirty # {} =>
                   \/ idle'[s] <= obj'[struct'[s]].changeAge
                   \/ obj'[struct'[s]].changeAge >= QuietMax
    <3> SUFFICES ASSUME NEW s \in Records, struct'[s] # NoObj
                 PROVE  /\ s \in DOMAIN row'
                        /\ \A g \in Fields : obj'[struct'[s]].data[g] # row'[s][g] =>
                                                 g \in obj'[struct'[s]].dirty
                        /\ obj'[struct'[s]].dirty # {} =>
                               \/ idle'[s] <= obj'[struct'[s]].changeAge
                               \/ obj'[struct'[s]].changeAge >= QuietMax
      BY Zenon
    <3>1. s # r /\ struct'[s] = struct[s] /\ obj'[struct[s]] = obj[struct[s]]
      BY Zenon, <1>5, <1>9
    <3>2. s \in DOMAIN row /\ idle'[s] = idle[s]
      BY Zenon, <1>7, <2>1, <3>1 DEF Behind
    <3>3. s \in DOMAIN row' /\ row'[s] = row[s]
      BY Zenon, <1>6, <3>1, <3>2
    <3> QED
      BY Zenon, <2>1, <3>1, <3>2, <3>3 DEF Behind
  <2> QED
    BY Zenon, <2>2, <2>3, <2>4 DEF Behind
<1> QED
  BY Zenon, <1>2, <1>3, <1>8, <1>11, <1>12, <1>13 DEF RInv

\* The end of process_request, with the players in gone unloaded.
LEMMA EndKeeps ==
    ASSUME RInv, NEW gone \in SUBSET Records, Rows!End(gone)
    PROVE  RInv'
<1> DEFINE objs == Rows!Marked(gone)
           ls == list \cup Rows!Released(gone)
<1>1. /\ Rows!Flush(objs, ls) /\ step' = "idle" /\ idle' = idle
      /\ struct' = [r \in Records |-> IF r \in gone THEN NoObj ELSE struct[r]]
  BY SMTT(30) DEF Rows!End
<1>2. /\ objs \in [Objs -> Rows!Struct] /\ ls \in SUBSET Objs
      /\ struct' \in [Records -> Objs \cup {NoObj}]
      /\ Own(objs, ls, struct') /\ Tidy(objs)
      /\ ~failed => Behind(objs, ls, struct', row, idle)
  BY Zenon, <1>1, MarkedKeeps
<1> HIDE DEF objs, ls
<1>3. Rows!TypeOK /\ idle' \in [Records -> 0 .. UnloadTime + 1]
  BY Zenon, <1>1, RInvTypes DEF RInv
<1> QED
  BY Zenon, <1>1, <1>2, <1>3, FlushKeeps

\* module_player_unload: everything is released and flushed.
LEMMA StopKeeps ==
    ASSUME RInv, Rows!Stop
    PROVE  RInv'
<1> DEFINE objs == Rows!Marked(Records)
           ls == list \cup Rows!Released(Records)
<1>1. /\ Rows!Flush(objs, ls) /\ step' = "idle"
      /\ idle' = [r \in Records |-> 0]
      /\ struct' = [r \in Records |-> IF r \in Records THEN NoObj ELSE struct[r]]
  BY Zenon DEF Rows!Stop
<1>2. /\ objs \in [Objs -> Rows!Struct] /\ ls \in SUBSET Objs
      /\ struct' \in [Records -> Objs \cup {NoObj}]
      /\ Own(objs, ls, struct') /\ Tidy(objs)
      /\ ~failed => Behind(objs, ls, struct', row, idle)
  BY Zenon, <1>1, MarkedKeeps
<1> HIDE DEF objs, ls
<1>3. ~failed => Behind(objs, ls, struct', row, idle')
  BY Zenon, <1>1, <1>2 DEF Behind
<1>4. Rows!TypeOK /\ idle' \in [Records -> 0 .. UnloadTime + 1]
  <2>1. 0 \in 0 .. UnloadTime + 1
    BY RowsAssumption
  <2> QED
    BY Zenon, <1>1, <2>1 DEF RInv
<1> QED
  BY Zenon, <1>1, <1>2, <1>3, <1>4, FlushKeeps

\* module_player_update: a change that grows older than QuietMax is written, so
\* that a row is never idle for longer than its last unwritten change is old.
LEMMA SecondKeeps ==
    ASSUME RInv, NEW d \in 1 .. MaxStep, Rows!Second(d)
    PROVE  RInv'
<1> DEFINE objs == [o \in Objs |-> Rows!Aged(obj[o], d)]
<1>1. /\ Rows!Flush(objs, list) /\ step = "idle" /\ step' = "idle" /\ struct' = struct
      /\ idle' = [r \in Records |-> IF struct[r] = NoObj THEN 0
                                    ELSE Rows!Older(idle[r], d, UnloadTime + 1)]
  BY Zenon DEF Rows!Second
<1>2. /\ list \in SUBSET Objs /\ struct \in [Records -> Objs \cup {NoObj}]
      /\ \A o \in Objs : obj[o] \in Rows!Struct /\ obj[o].rec \in Records
      /\ \A r \in Records : idle[r] \in 0 .. UnloadTime + 1
  BY Zenon, RInvTypes
<1>3. d \in Nat
  BY RowsAssumption
<1>4. \A o \in Objs :
          /\ objs[o] \in Rows!Struct
          /\ objs[o].rec = obj[o].rec /\ objs[o].data = obj[o].data
          /\ objs[o].dirty = obj[o].dirty /\ objs[o].clean = obj[o].clean
          /\ objs[o].flag = obj[o].flag
          /\ ~obj[o].clean => \/ objs[o].changeAge = obj[o].changeAge + d
                              \/ objs[o].changeAge = DirtyMax
  BY <1>2, <1>3, AgedFields
<1>5. objs \in [Objs -> Rows!Struct]
  BY Zenon, <1>4
<1> HIDE DEF objs
<1>6. Own(objs, list, struct') /\ Tidy(objs)
  BY SMTT(30), <1>1, <1>2, <1>4 DEF RInv, Own, Tidy
<1>7. /\ idle' \in [Records -> 0 .. UnloadTime + 1]
      /\ \A r \in Records : struct[r] # NoObj => idle'[r] <= idle[r] + d
  BY <1>1, <1>2, <1>3, RowsAssumption DEF Rows!Older
<1>8. ASSUME ~failed
      PROVE  Behind(objs, list, struct', row, idle')
  <2>1. Behind(obj, list, struct, row, idle)
    BY Zenon, <1>8 DEF RInv
  <2>2. \A o \in Objs : objs[o].dirty # {} =>
            /\ o \in list /\ objs[o].flag \in {"none", "release"}
            /\ struct'[objs[o].rec] \in {NoObj, o}
    BY Zenon, <1>1, <1>4, <2>1 DEF Behind
  <2>3. \A r \in Records : struct[r] # NoObj =>
            /\ r \in DOMAIN row
            /\ \A f \in Fields :
                   objs[struct[r]].data[f] # row[r][f] => f \in objs[struct[r]].dirty
    BY Zenon, <1>2, <1>4, <2>1 DEF Behind
  <2>4. ASSUME NEW r \in Records, struct[r] # NoObj, objs[struct[r]].dirty # {}
        PROVE  \/ idle'[r] <= objs[struct[r]].changeAge
               \/ objs[struct[r]].changeAge >= QuietMax
    <3>1. struct[r] \in Objs /\ obj[struct[r]].dirty # {}
      BY Zenon, <1>2, <1>4, <2>4
    <3>2. ~obj[struct[r]].clean
      BY SMTT(30), <3>1 DEF RInv, Tidy
    <3>3. /\ obj[struct[r]].changeAge < QuietMax
          /\ idle[r] <= obj[struct[r]].changeAge \/ obj[struct[r]].changeAge >= QuietMax
      BY Zenon, <1>1, <1>8, <2>1, <2>4, <3>1 DEF RInv, Behind
    <3>4. obj[struct[r]].changeAge \in Nat /\ idle[r] \in Nat /\ idle'[r] \in Nat
      BY <1>2, <1>7, <3>1, StructFields, RowsAssumption
    <3>5. \/ objs[struct[r]].changeAge = obj[struct[r]].changeAge + d
          \/ objs[struct[r]].changeAge = DirtyMax
      BY Zenon, <1>4, <3>1, <3>2
    <3>6. idle'[r] <= idle[r] + d
      BY Zenon, <1>7, <2>4
    <3> QED
      BY <1>3, <3>3, <3>4, <3>5, <3>6, RowsAssumption
  <2> QED
    BY Zenon, <1>1, <2>2, <2>3, <2>4 DEF Behind
<1>9. Rows!TypeOK /\ struct' \in [Records -> Objs \cup {NoObj}]
  BY Zenon, <1>1, <1>2 DEF RInv
<1> QED
  BY Zenon, <1>1, <1>2, <1>5, <1>6, <1>7, <1>8, <1>9, FlushKeeps

\* No structure is in use.
LEMMA NothingLoaded ==
    ASSUME Rows!TypeOK,
           \A o \in Objs : obj[o].flag = "free" /\ obj[o].dirty = {} /\ obj[o].clean = TRUE,
           \A r \in Records : struct[r] = NoObj, list = {}
    PROVE  RInv
<1>1. \A o \in Objs : obj[o].clean <=> obj[o].dirty = {}
  BY Zenon
<1>2. Own(obj, list, struct) /\ Behind(obj, list, struct, row, idle)
  BY Zenon DEF Own, Behind
<1> QED
  BY Zenon, <1>1, <1>2 DEF RInv, Tidy

\* The process dies: its memory is lost, the rows stay as they are.
LEMMA CrashKeeps ==
    ASSUME RInv, Rows!Crash
    PROVE  RInv'
<1>1. /\ obj' = [o \in Objs |-> Rows!Freed(obj[o])]
      /\ struct' = [r \in Records |-> NoObj] /\ list' = {}
      /\ idle' = [r \in Records |-> 0] /\ step' = "idle"
      /\ row' = row /\ failed' = failed
  BY Zenon DEF Rows!Crash
<1>2. \A o \in Objs : /\ obj'[o] \in Rows!Struct /\ obj'[o].flag = "free"
                      /\ obj'[o].dirty = {} /\ obj'[o].clean = TRUE
  <2>1. \A o \in Objs : obj[o] \in Rows!Struct /\ obj'[o] = Rows!Freed(obj[o])
    BY Zenon, <1>1, RInvTypes
  <2>2. ASSUME NEW o \in Objs
        PROVE  LET t == Rows!Freed(obj[o])
               IN t \in Rows!Struct /\ t.flag = "free" /\ t.dirty = {} /\ t.clean = TRUE
    BY Zenon, <2>1, FreedFields
  <2> QED
    BY Zenon, <2>1, <2>2
<1>3. Rows!TypeOK'
  <2>1. obj' \in [Objs -> Rows!Struct]
    BY Zenon, <1>1, <1>2
  <2>2. idle' \in [Records -> 0 .. UnloadTime + 1]
    <3>1. 0 \in 0 .. UnloadTime + 1
      BY RowsAssumption
    <3> QED
      BY Zenon, <1>1, <3>1
  <2>3. DOMAIN row \subseteq Records /\ row \in [DOMAIN row -> Rows!Data] /\ failed \in BOOLEAN
    BY Zenon DEF RInv, Rows!TypeOK
  <2> QED
    BY Zenon, <1>1, <2>1, <2>2, <2>3 DEF Rows!TypeOK
<1>4. \A r \in Records : struct'[r] = NoObj
  BY Zenon, <1>1
<1>5. \A o \in Objs : obj'[o].clean <=> obj'[o].dirty = {}
  BY <1>2, Zenon
<1>6. Own(obj, list, struct)' /\ Behind(obj, list, struct, row, idle)'
  BY Zenon, <1>1, <1>2, <1>4 DEF Own, Behind
<1> QED
  BY Zenon, <1>2, <1>3, <1>5, <1>6 DEF RInv, Tidy
-----------------------------------------------------------------------------
(* The theorems.                                                           *)

\* The rows are in this invariant at the start and after every step.
LEMMA RInvHolds == Rows!Spec => []RInv
<1>1. Rows!Init => RInv
  <2> SUFFICES ASSUME Rows!Init PROVE RInv
    BY Zenon
  <2>1. PICK r \in Records, d \in Rows!Data :
            /\ obj = [o \in Objs |-> Rows!Freed(Rows!Fresh(r, d))]
            /\ row = [s \in Records |-> d]
    BY Zenon DEF Rows!Init
  <2>2. Rows!Fresh(r, d) \in Rows!Struct
    BY Zenon, FreshFields
  <2>3. \A o \in Objs : /\ obj[o] \in Rows!Struct /\ obj[o].flag = "free"
                        /\ obj[o].dirty = {} /\ obj[o].clean = TRUE
    <3>1. \A o \in Objs : obj[o] = Rows!Freed(Rows!Fresh(r, d))
      BY Zenon, <2>1
    <3> QED
      BY Zenon, <2>2, <3>1, FreedFields
  <2>4. Rows!TypeOK
    <3>1. obj \in [Objs -> Rows!Struct] /\ 0 \in 0 .. UnloadTime + 1
      BY <2>1, <2>3, RowsAssumption
    <3> QED
      BY Zenon, <2>1, <3>1 DEF Rows!Init, Rows!TypeOK
  <2> QED
    BY Zenon, <2>3, <2>4, NothingLoaded DEF Rows!Init
<1>2. RInv /\ [Rows!Next]_(Rows!vars) => RInv'
  <2> SUFFICES ASSUME RInv, [Rows!Next]_(Rows!vars) PROVE RInv'
    BY Zenon
  <2>1. CASE Rows!Next
    BY Zenon, <2>1, BeginKeeps, LoadKeeps, NewKeeps, UpdateKeeps, DeleteKeeps, EndKeeps,
       SecondKeeps, StopKeeps, CrashKeeps DEF Rows!Next
  <2>2. CASE UNCHANGED Rows!vars
    BY Zenon, <2>2 DEF Rows!vars, RInv, Rows!TypeOK, Own, Tidy, Behind
  <2> QED
    BY Zenon, <2>1, <2>2
<1> QED
  BY <1>1, <1>2, PTL DEF Rows!Spec

\* DATA_X_flush neither frees a structure in use nor forgets one that was released
\* or deleted, whatever requests, seconds, failed saves and crashes come between.
THEOREM OwnStructsHolds == Rows!Spec => []OwnStructs
<1>1. RInv => OwnStructs
  BY Zenon DEF RInv, Own, OwnStructs, Rows!OwnStructs, Rows!Loaded
<1> QED
  BY <1>1, RInvHolds, PTL

\* Until a save fails, a crash loses changes of less than DirtyMax seconds: all
\* others have been written by DATA_X_save.
THEOREM LossBoundedHolds == Rows!Spec => []LossBounded
<1>1. RInv => LossBounded
  <2> SUFFICES ASSUME RInv, ~failed, NEW r \in Records, struct[r] # NoObj
      PROVE  /\ r \in DOMAIN row
             /\ \A f \in Fields : obj[struct[r]].data[f] # row[r][f] =>
                                      f \in obj[struct[r]].dirty
             /\ step = "idle" /\ obj[struct[r]].dirty # {} =>
                    struct[r] \in list /\ obj[struct[r]].dirtyAge < DirtyMax
    BY Zenon DEF LossBounded, Rows!LossBounded, Rows!Loaded
  <2>1. struct[r] \in Objs
    BY Zenon, RInvTypes
  <2> QED
    BY Zenon, <2>1 DEF RInv, Behind
<1> QED
  BY <1>1, RInvHolds, PTL

\* Until a save fails, DATA_X_load never reads rows that changes made before
\* DATA_X_release have yet to reach.
THEOREM LoadsLatestHolds == Rows!Spec => []LoadsLatest
<1>1. RInv => LoadsLatest
  <2> SUFFICES ASSUME RInv, ~failed, NEW r \in Records, struct[r] # NoObj,
                      NEW o \in Objs \ {struct[r]}, obj[o].rec = r, obj[o].dirty # {}
               PROVE  FALSE
    BY Zenon DEF LoadsLatest, Rows!LoadsLatest, Rows!Loaded
  <2>1. struct[obj[o].rec] \in {NoObj, o}
    BY Zenon DEF RInv, Behind
  <2> QED
    BY Zenon, <2>1
<1> QED
  BY <1>1, RInvHolds, PTL
-----------------------------------------------------------------------------
(* Notifications for clients.                                              *)

\* The lists and the values last set are of their types, and belong together.
ListsInv ==
    /\ l \in [Notified -> Seq(Notes!Entry)]
    /\ last \in [Notified -> [Keys -> Contents \cup {None}]]
    /\ Notes!LastValue

\* What LastValue says of one list w and the values of its keys.
Lasts(w, val) ==
    \A k \in Keys :
        IF val[k] = None THEN \A j \in 1 .. Len(w) : w[j].rkey # k
        ELSE \E j \in 1 .. Len(w) :
                 /\ w[j].rkey = k /\ w[j].value = val[k]
                 /\ \A h \in 1 .. Len(w) : w[h].rkey = k => h = j

(* LastValue, list by list.                                                *)
LEMMA LastsOf ==
    l \in [Notified -> Seq(Notes!Entry)] =>
        (Notes!LastValue <=> \A p \in Notified : Lasts(l[p], last[p]))
<1> SUFFICES ASSUME l \in [Notified -> Seq(Notes!Entry)], NEW p \in Notified, NEW k \in Keys
             PROVE  (IF last[p][k] = None THEN Notes!Waiting(p, k) = {}
                     ELSE \E j \in DOMAIN l[p] : /\ Notes!Waiting(p, k) = {j}
                                                 /\ l[p][j].value = last[p][k])
                    <=> (IF last[p][k] = None THEN \A j \in 1 .. Len(l[p]) : l[p][j].rkey # k
                         ELSE \E j \in 1 .. Len(l[p]) :
                                  /\ l[p][j].rkey = k /\ l[p][j].value = last[p][k]
                                  /\ \A h \in 1 .. Len(l[p]) : l[p][h].rkey = k => h = j)
  BY DEF Notes!LastValue, Lasts
<1>1. l[p] \in Seq(Notes!Entry) /\ DOMAIN l[p] = 1 .. Len(l[p])
  OBVIOUS
<1>2. Notes!Waiting(p, k) = {j \in 1 .. Len(l[p]) : l[p][j].rkey = k}
  BY Zenon, <1>1 DEF Notes!Waiting
<1> HIDE DEF Lasts
<1>3. Notes!Waiting(p, k) = {} <=> \A j \in 1 .. Len(l[p]) : l[p][j].rkey # k
  BY Zenon, <1>2
<1>4. \A j \in 1 .. Len(l[p]) :
         Notes!Waiting(p, k) = {j} <=>
             l[p][j].rkey = k /\ \A h \in 1 .. Len(l[p]) : l[p][h].rkey = k => h = j
  BY Zenon, <1>2
<1> QED
  BY Zenon, <1>1, <1>3, <1>4

LEMMA LastsOfNext ==
    (l \in [Notified -> Seq(Notes!Entry)] =>
        (Notes!LastValue <=> \A p \in Notified : Lasts(l[p], last[p])))'
  BY LastsOf, PTL

(* A notification at the end of a list, for a key that none waits for.     *)
LEMMA LastsAppend ==
    ASSUME NEW w \in Seq(Notes!Entry), NEW val \in [Keys -> Contents \cup {None}],
           Lasts(w, val), NEW k \in Keys \cup {NoKey}, NEW v \in Contents,
           k \in Keys => val[k] = None
    PROVE  /\ Append(w, [rkey |-> k, value |-> v]) \in Seq(Notes!Entry)
           /\ Lasts(Append(w, [rkey |-> k, value |-> v]),
                    IF k \in Keys THEN [val EXCEPT ![k] = v] ELSE val)
<1> DEFINE e == [rkey |-> k, value |-> v]
           x == Append(w, e)
           y == IF k \in Keys THEN [val EXCEPT ![k] = v] ELSE val
<1>1. e \in Notes!Entry /\ e.rkey = k /\ e.value = v
  BY Zenon DEF Notes!Entry
<1> HIDE DEF e
<1>2. /\ x \in Seq(Notes!Entry) /\ Len(w) \in Nat /\ Len(x) = Len(w) + 1
      /\ x[Len(w) + 1] = e /\ \A j \in 1 .. Len(w) : x[j] = w[j]
  BY <1>1
<1> HIDE DEF x
<1>3. /\ Len(w) + 1 \in 1 .. Len(x) /\ \A j \in 1 .. Len(w) : j \in 1 .. Len(x)
      /\ \A j \in 1 .. Len(x) : j \in 1 .. Len(w) \/ j = Len(w) + 1
  BY <1>2
<1>4. Lasts(x, y)
  <2> SUFFICES ASSUME NEW g \in Keys
               PROVE  IF y[g] = None THEN \A j \in 1 .. Len(x) : x[j].rkey # g
                      ELSE \E j \in 1 .. Len(x) :
                               /\ x[j].rkey = g /\ x[j].value = y[g]
                               /\ \A h \in 1 .. Len(x) : x[h].rkey = g => h = j
    BY Zenon DEF Lasts
  <2>1. CASE g = k
    <3>1. y[g] = v /\ v # None
      BY Zenon, <2>1, NotesAssumption
    <3>2. \A j \in 1 .. Len(w) : w[j].rkey # g
      BY Zenon, <2>1 DEF Lasts
    <3>3. x[Len(w) + 1].rkey = g /\ x[Len(w) + 1].value = y[g]
      BY Zenon, <1>1, <1>2, <2>1, <3>1
    <3>4. \A h \in 1 .. Len(x) : x[h].rkey = g => h = Len(w) + 1
      BY Zenon, <1>2, <1>3, <3>2
    <3> QED
      BY Zenon, <1>3, <3>1, <3>3, <3>4
  <2>2. CASE g # k
    <3>1. y[g] = val[g] /\ x[Len(w) + 1].rkey # g
      BY Zenon, <1>1, <1>2, <2>2
    <3>2. CASE val[g] = None
      <4>1. \A j \in 1 .. Len(w) : w[j].rkey # g
        BY Zenon, <3>2 DEF Lasts
      <4> QED
        BY Zenon, <1>2, <1>3, <3>1, <3>2, <4>1
    <3>3. CASE val[g] # None
      <4>1. PICK j \in 1 .. Len(w) :
              /\ w[j].rkey = g /\ w[j].value = val[g]
              /\ \A h \in 1 .. Len(w) : w[h].rkey = g => h = j
        BY Zenon, <3>3 DEF Lasts
      <4>2. \A h \in 1 .. Len(x) : x[h].rkey = g => h = j
        BY Zenon, <1>2, <1>3, <3>1, <4>1
      <4> QED
        BY Zenon, <1>2, <1>3, <3>1, <3>3, <4>1, <4>2
    <3> QED
      BY Zenon, <3>2, <3>3
  <2> QED
    BY Zenon, <2>1, <2>2
<1> QED
  BY Zenon, <1>2, <1>4 DEF x, e


(* A notification takes the place of the one with its key.                 *)
Replaced(w, k, v) ==
    [j \in DOMAIN w |-> IF w[j].rkey = k THEN [w[j] EXCEPT !.value = v] ELSE w[j]]

LEMMA LastsReplace ==
    ASSUME NEW w \in Seq(Notes!Entry), NEW val \in [Keys -> Contents \cup {None}],
           Lasts(w, val), NEW k \in Keys, NEW v \in Contents, val[k] # None
    PROVE  /\ Replaced(w, k, v) \in Seq(Notes!Entry)
           /\ Lasts(Replaced(w, k, v), [val EXCEPT ![k] = v])
<1> DEFINE x == Replaced(w, k, v)
           y == [val EXCEPT ![k] = v]
<1>1. \A j \in 1 .. Len(w) : w[j] \in Notes!Entry
  OBVIOUS
<1>2. ASSUME NEW e \in Notes!Entry
      PROVE  /\ [e EXCEPT !.value = v] \in Notes!Entry
             /\ [e EXCEPT !.value = v].rkey = e.rkey /\ [e EXCEPT !.value = v].value = v
  BY Zenon, <1>2 DEF Notes!Entry
<1>3. /\ x = [j \in 1 .. Len(w) |->
                 IF w[j].rkey = k THEN [w[j] EXCEPT !.value = v] ELSE w[j]]
      /\ Len(w) \in Nat
  BY DEF Replaced
<1> HIDE DEF x
<1>4. \A j \in 1 .. Len(w) :
         x[j] = IF w[j].rkey = k THEN [w[j] EXCEPT !.value = v] ELSE w[j]
  BY Zenon, <1>3
<1>5. \A j \in 1 .. Len(w) :
         /\ x[j] \in Notes!Entry /\ x[j].rkey = w[j].rkey
         /\ x[j].value = IF w[j].rkey = k THEN v ELSE w[j].value
  <2> TAKE j \in 1 .. Len(w)
  <2>1. w[j] \in Notes!Entry
    BY Zenon, <1>1
  <2>2. CASE w[j].rkey = k
    <3>1. x[j] = [w[j] EXCEPT !.value = v]
      BY Zenon, <1>4, <2>2
    <3> QED
      BY Zenon, <1>2, <2>1, <2>2, <3>1
  <2>3. CASE w[j].rkey # k
    BY Zenon, <1>4, <2>1, <2>3
  <2> QED
    BY Zenon, <2>2, <2>3
<1>6. x \in Seq(Notes!Entry) /\ Len(x) = Len(w)
  <2>1. x \in [1 .. Len(w) -> Notes!Entry]
    BY Zenon, <1>3, <1>5
  <2> QED
    BY <1>3, <2>1
<1>7. Lasts(x, y)
  <2> SUFFICES ASSUME NEW g \in Keys
               PROVE  IF y[g] = None THEN \A j \in 1 .. Len(x) : x[j].rkey # g
                      ELSE \E j \in 1 .. Len(x) :
                               /\ x[j].rkey = g /\ x[j].value = y[g]
                               /\ \A h \in 1 .. Len(x) : x[h].rkey = g => h = j
    BY Zenon DEF Lasts
  <2>1. y[g] = IF g = k THEN v ELSE val[g]
    BY Zenon
  <2>2. v # None
    BY Zenon, NotesAssumption
  <2>3. CASE val[g] = None
    <3>1. g # k /\ \A j \in 1 .. Len(w) : w[j].rkey # g
      BY Zenon, <2>3 DEF Lasts
    <3> QED
      BY Zenon, <1>5, <1>6, <2>1, <2>3, <3>1
  <2>4. CASE val[g] # None
    <3>1. PICK j \in 1 .. Len(w) :
            /\ w[j].rkey = g /\ w[j].value = val[g]
            /\ \A h \in 1 .. Len(w) : w[h].rkey = g => h = j
      BY Zenon, <2>4 DEF Lasts
    <3>2. x[j].rkey = g /\ x[j].value = y[g] /\ y[g] # None
      BY Zenon, <1>5, <2>1, <2>2, <2>4, <3>1
    <3>3. \A h \in 1 .. Len(x) : x[h].rkey = g => h = j
      BY Zenon, <1>5, <1>6, <3>1
    <3> QED
      BY Zenon, <1>6, <3>2, <3>3
  <2> QED
    BY Zenon, <2>3, <2>4
<1> QED
  BY Zenon, <1>6, <1>7 DEF x

(* notification_add and notification_set.                                  *)
LEMMA AddSetLists ==
    ASSUME ListsInv, NEW p \in Notified, NEW v \in Contents,
           Notes!Add(p, v) \/ \E k \in Keys : Notes!Set(p, k, v)
    PROVE  ListsInv'
<1>1. /\ l \in [Notified -> Seq(Notes!Entry)] /\ l[p] \in Seq(Notes!Entry)
      /\ last \in [Notified -> [Keys -> Contents \cup {None}]]
      /\ last[p] \in [Keys -> Contents \cup {None}]
      /\ \A q \in Notified : Lasts(l[q], last[q])
  BY Zenon, LastsOf DEF ListsInv
<1>2. ASSUME NEW w, NEW y, w \in Seq(Notes!Entry), y \in [Keys -> Contents \cup {None}],
             Lasts(w, y), l' = [l EXCEPT ![p] = w], last' = [last EXCEPT ![p] = y]
      PROVE  ListsInv'
  <2>1. /\ l' \in [Notified -> Seq(Notes!Entry)]
        /\ last' \in [Notified -> [Keys -> Contents \cup {None}]]
        /\ l'[p] = w /\ last'[p] = y
        /\ \A q \in Notified \ {p} : l'[q] = l[q] /\ last'[q] = last[q]
    BY Zenon, <1>1, <1>2
  <2>2. \A q \in Notified : Lasts(l'[q], last'[q])
    BY Zenon, <1>1, <1>2, <2>1
  <2>3. Notes!LastValue'
    BY Zenon, <2>1, <2>2, LastsOfNext
  <2> QED
    BY Zenon, <2>1, <2>3 DEF ListsInv
<1>3. CASE Notes!Add(p, v)
  <2> DEFINE w == Append(l[p], [rkey |-> NoKey, value |-> v])
  <2>1. l' = [l EXCEPT ![p] = w] /\ last' = last
    BY Zenon, <1>3 DEF Notes!Add
  <2>2. last' = [last EXCEPT ![p] = last[p]]
    BY Zenon, <1>1, <2>1
  <2>3. w \in Seq(Notes!Entry) /\ Lasts(w, last[p])
    BY Zenon, <1>1, LastsAppend, NotesAssumption
  <2> HIDE DEF w
  <2> QED
    BY Zenon, <1>1, <1>2, <2>1, <2>2, <2>3
<1>4. CASE \E k \in Keys : Notes!Set(p, k, v)
  <2>1. PICK k \in Keys : Notes!Set(p, k, v)
    BY Zenon, <1>4
  <2> DEFINE y == [last[p] EXCEPT ![k] = v]
  <2>2. last' = [last EXCEPT ![p] = y] /\ y \in [Keys -> Contents \cup {None}]
    BY Zenon, <1>1, <2>1 DEF Notes!Set
  <2>3. Notes!Waiting(p, k) = {} <=> last[p][k] = None
    BY Zenon, <1>1 DEF ListsInv, Notes!LastValue
  <2>4. CASE last[p][k] = None
    <3> DEFINE w == Append(l[p], [rkey |-> k, value |-> v])
    <3>1. l' = [l EXCEPT ![p] = w]
      BY Zenon, <2>1, <2>3, <2>4 DEF Notes!Set
    <3>2. w \in Seq(Notes!Entry) /\ Lasts(w, y)
      BY Zenon, <1>1, <2>4, LastsAppend
    <3> HIDE DEF w, y
    <3> QED
      BY Zenon, <1>2, <2>2, <3>1, <3>2
  <2>5. CASE last[p][k] # None
    <3> DEFINE w == Replaced(l[p], k, v)
    <3>1. l' = [l EXCEPT ![p] = w]
      <4>1. w = [j \in DOMAIN l[p] |-> IF j \in Notes!Waiting(p, k)
                                       THEN [l[p][j] EXCEPT !.value = v] ELSE l[p][j]]
        BY Zenon DEF Replaced, Notes!Waiting
      <4> QED
        BY Zenon, <2>1, <2>3, <2>5, <4>1 DEF Notes!Set
    <3>2. w \in Seq(Notes!Entry) /\ Lasts(w, y)
      BY Zenon, <1>1, <2>5, LastsReplace
    <3> HIDE DEF w, y
    <3> QED
      BY Zenon, <1>2, <2>2, <3>1, <3>2
  <2> QED
    BY Zenon, <2>4, <2>5
<1> QED
  BY Zenon, <1>3, <1>4

(* notification_clean sends all lists.                                     *)
LEMMA CleanLists ==
    ASSUME Notes!Clean \/ \E d \in 1 .. NBDelay : Notes!Second(d)
    PROVE  ListsInv'
<1>1. /\ l' = [p \in Notified |-> <<>>]
      /\ last' = [p \in Notified |-> [k \in Keys |-> None]]
  BY Zenon DEF Notes!Clean, Notes!Second
<1>2. /\ l' \in [Notified -> Seq(Notes!Entry)]
      /\ last' \in [Notified -> [Keys -> Contents \cup {None}]]
  BY <1>1
<1>3. \A p \in Notified : Lasts(l'[p], last'[p])
  BY <1>1 DEF Lasts
<1> QED
  BY Zenon, <1>2, <1>3, LastsOfNext DEF ListsInv

-----------------------------------------------------------------------------
(* Counts for the backend.                                                 *)

NBSlots == 0 .. NBCount - 1
NBRecords == [pid : Counted \cup {None}, value : Nat, age : Nat]
NoCount == [pid |-> None, value |-> 0, age |-> 0]

\* The entries of the array that hold a count: those below used and, during
\* _nb_clean, those it has yet to look at.
Live(u, j, h, s) == s < u \/ (j <= s /\ s < h)

\* The array a and the map m agree; everything else in the array is zero.
Agree(a, m, u, j, h) ==
    /\ \A p \in Counted : m[p] # None => Live(u, j, h, m[p]) /\ a[m[p]].pid = p
    /\ \A s \in NBSlots : IF Live(u, j, h, s) THEN a[s].pid \in Counted /\ m[a[s].pid] = s
                                              ELSE a[s] = NoCount

\* What is recorded of p and not sent.
Open(a, m, w, p) ==
    (IF m[p] = None THEN 0 ELSE a[m[p]].value) + (IF w = p THEN 1 ELSE 0)

Summed(a, m, w, rec, snt) == \A p \in Counted : rec[p] = snt[p] + Open(a, m, w, p)

InDelay(a, u) == \A s \in NBSlots : s < u => a[s].age < NBDelay

NBTyped ==
    /\ player \in [NBSlots -> NBRecords]
    /\ map \in [Counted -> NBSlots \cup {None}]
    /\ recorded \in [Counted -> Nat] /\ sent \in [Counted -> Nat]
    /\ used \in Nat /\ i \in Nat /\ n \in Nat
    /\ clean \in {"idle", "clean"} /\ force \in BOOLEAN /\ todo \in Counted \cup {None}

\* A clean that was forced keeps no entry, so that the count it was forced by
\* finds room.
Cleaning ==
    /\ used <= NBCount /\ n <= NBCount
    /\ clean = "idle" => i = 0 /\ n = 0 /\ todo = None
    /\ clean = "clean" => used <= i /\ i <= n
    /\ force /\ clean = "clean" => used = 0
    /\ todo # None => force /\ clean = "clean" /\ map[todo] = None

CountInv ==
    /\ NBTyped /\ Cleaning
    /\ Agree(player, map, used, i, n)
    /\ Summed(player, map, todo, recorded, sent)
    /\ InDelay(player, used)

\* The fields of a struct nb_player, and what becomes of it.
LEMMA NBFields ==
    \A e \in NBRecords : e.pid \in Counted \cup {None} /\ e.value \in Nat /\ e.age \in Nat
  BY Zenon DEF NBRecords

LEMMA CountFields ==
    ASSUME NEW e \in NBRecords, NEW d \in Nat
    PROVE  /\ e.pid \in Counted \cup {None} /\ e.value \in Nat /\ e.age \in Nat
           /\ [e EXCEPT !.value = @ + 1, !.age = 0] = [pid |-> e.pid, value |-> e.value + 1, age |-> 0]
           /\ [e EXCEPT !.age = IF @ + d > NBDelay THEN NBDelay ELSE @ + d]
                = [pid |-> e.pid, value |-> e.value,
                   age |-> IF e.age + d > NBDelay THEN NBDelay ELSE e.age + d]
<1>1. e.pid \in Counted \cup {None} /\ e.value \in Nat /\ e.age \in Nat
  BY Zenon DEF NBRecords
<1>2. e = [pid |-> e.pid, value |-> e.value, age |-> e.age]
  BY Zenon DEF NBRecords
<1>3. ASSUME NEW r \in NBRecords, NEW a
      PROVE  [r EXCEPT !.age = a] = [pid |-> r.pid, value |-> r.value, age |-> a]
  <2>1. r = [pid |-> r.pid, value |-> r.value, age |-> r.age]
    BY Zenon DEF NBRecords
  <2> QED
    BY <2>1
<1>4. [e EXCEPT !.value = @ + 1] = [pid |-> e.pid, value |-> e.value + 1, age |-> e.age]
  BY <1>2
<1>5. [e EXCEPT !.value = @ + 1, !.age = 0] = [pid |-> e.pid, value |-> e.value + 1, age |-> 0]
  <2> DEFINE r == [e EXCEPT !.value = @ + 1]
  <2>1. /\ r \in NBRecords
        /\ r.pid = e.pid /\ r.value = e.value + 1
    BY <1>1, <1>4 DEF NBRecords
  <2> HIDE DEF r
  <2>2. [r EXCEPT !.age = 0] = [pid |-> e.pid, value |-> e.value + 1, age |-> 0]
    BY Zenon, <1>3, <2>1
  <2> QED
    BY Zenon, <2>2 DEF r
<1> QED
  BY Zenon, <1>1, <1>3, <1>5

(* An empty array.                                                         *)
LEMMA CountInit == Notes!Init => CountInv
<1> SUFFICES ASSUME Notes!Init PROVE CountInv
  BY Zenon
<1>1. /\ player = [s \in NBSlots |-> NoCount] /\ used = 0 /\ map = [p \in Counted |-> None]
      /\ recorded = [p \in Counted |-> 0] /\ sent = [p \in Counted |-> 0]
      /\ clean = "idle" /\ i = 0 /\ n = 0 /\ force = FALSE /\ todo = None
  BY Zenon DEF Notes!Init, Notes!Slots, Notes!Zero, NBSlots, NoCount
<1>2. NoCount \in NBRecords
  BY Zenon DEF NoCount, NBRecords
<1>3. NBTyped
  BY Zenon, <1>1, <1>2 DEF NBTyped
<1>4. Cleaning
  BY <1>1, NotesAssumption DEF Cleaning
<1>5. Agree(player, map, used, i, n)
  BY <1>1 DEF Agree, Live, NBSlots
<1>6. Summed(player, map, todo, recorded, sent)
  <2> SUFFICES ASSUME NEW p \in Counted
               PROVE  recorded[p] = sent[p] + Open(player, map, todo, p)
    BY Zenon DEF Summed
  <2>1. recorded[p] = 0 /\ sent[p] = 0 /\ map[p] = None /\ todo # p
    BY Zenon, <1>1, NotesAssumption
  <2> QED
    BY <2>1 DEF Open
<1>7. InDelay(player, used)
  BY <1>1 DEF InDelay, NBSlots
<1> QED
  BY Zenon, <1>3, <1>4, <1>5, <1>6, <1>7 DEF CountInv

(* The clean begins, for player p if the array is full; a is the array as  *)
(* it is then, when the entries have aged, and rec what is recorded.       *)
Begins(f, p, a, rec) ==
    /\ clean = "idle" /\ Notes!CleanFrom(f, p) /\ UNCHANGED <<map, sent>>
    /\ player' = a /\ a \in [NBSlots -> NBRecords]
    /\ \A s \in NBSlots : /\ a[s].pid = player[s].pid /\ a[s].value = player[s].value
                          /\ player[s] = NoCount => a[s] = NoCount
    /\ recorded' = rec /\ rec \in [Counted -> Nat]
    /\ \A q \in Counted : rec[q] = recorded[q] + (IF q = p THEN 1 ELSE 0)
    /\ p # None => f = TRUE /\ map[p] = None

LEMMA CleanBegins ==
    ASSUME CountInv, NEW f \in BOOLEAN, NEW p \in Counted \cup {None}, NEW a, NEW rec,
           Begins(f, p, a, rec)
    PROVE  CountInv'
<1>1. /\ clean' = "clean" /\ i' = 0 /\ n' = used /\ used' = 0 /\ force' = f /\ todo' = p
      /\ map' = map /\ sent' = sent /\ player' = a /\ recorded' = rec
  BY Zenon DEF Begins, Notes!CleanFrom
<1>2. i = 0 /\ n = 0 /\ todo = None /\ used \in Nat /\ used <= NBCount
  BY Zenon DEF Begins, CountInv, NBTyped, Cleaning
<1>3. /\ a \in [NBSlots -> NBRecords] /\ player \in [NBSlots -> NBRecords]
      /\ rec \in [Counted -> Nat] /\ sent \in [Counted -> Nat]
      /\ map \in [Counted -> NBSlots \cup {None}]
  BY Zenon DEF Begins, CountInv, NBTyped
<1>4. \A s \in NBSlots : /\ a[s].pid = player[s].pid /\ a[s].value = player[s].value
                         /\ player[s] = NoCount => a[s] = NoCount
  BY Zenon DEF Begins
<1>5. NBTyped'
  BY Zenon, <1>1, <1>2, <1>3 DEF NBTyped
<1>6. Cleaning'
  <2>1. p # None => f = TRUE /\ map[p] = None
    BY Zenon DEF Begins
  <2> QED
    BY <1>1, <1>2, <2>1, NotesAssumption DEF Cleaning
<1>7. \A s \in NBSlots : Live(0, 0, used, s) <=> Live(used, 0, 0, s)
  BY <1>2 DEF Live, NBSlots
<1>8. Agree(a, map, 0, 0, used)
  <2>1. Agree(player, map, used, 0, 0)
    BY Zenon, <1>2 DEF CountInv
  <2>2. \A q \in Counted : map[q] # None =>
             /\ map[q] \in NBSlots /\ Live(used, 0, 0, map[q]) /\ player[map[q]].pid = q
    BY <1>3, <2>1 DEF Agree
  <2>3. \A q \in Counted : map[q] # None =>
             Live(0, 0, used, map[q]) /\ a[map[q]].pid = q
    BY Zenon, <1>4, <1>7, <2>2
  <2>4. \A s \in NBSlots : IF Live(0, 0, used, s) THEN a[s].pid \in Counted /\ map[a[s].pid] = s
                                                  ELSE a[s] = NoCount
    BY <1>4, <1>7, <2>1 DEF Agree
  <2> QED
    BY Zenon, <2>3, <2>4 DEF Agree
<1>9. Summed(a, map, p, rec, sent)
  <2> SUFFICES ASSUME NEW q \in Counted
               PROVE  rec[q] = sent[q] + Open(a, map, p, q)
    BY Zenon DEF Summed
  <2>1. recorded[q] = sent[q] + Open(player, map, None, q) /\ q # None
    BY Zenon, <1>2, NotesAssumption DEF CountInv, Summed
  <2>2. rec[q] = recorded[q] + (IF q = p THEN 1 ELSE 0) /\ sent[q] \in Nat
    BY Zenon, <1>3 DEF Begins
  <2>3. CASE map[q] = None
    <3>1. Open(player, map, None, q) = 0 /\ Open(a, map, p, q) = (IF q = p THEN 1 ELSE 0)
      BY <2>1, <2>3 DEF Open
    <3> QED
      BY <2>1, <2>2, <3>1
  <2>4. CASE map[q] # None
    <3>9. map[q] \in NBSlots
      BY Zenon, <1>3, <2>4
    <3>1. map[q] # None /\ a[map[q]].value = player[map[q]].value
      BY Zenon, <1>4, <2>4, <3>9
    <3>2. player[map[q]].value \in Nat
      BY Zenon, <1>3, <3>9, NBFields
    <3>3. /\ Open(player, map, None, q) = player[map[q]].value
          /\ Open(a, map, p, q) = player[map[q]].value + (IF q = p THEN 1 ELSE 0)
      BY <2>1, <2>4, <3>1, <3>2 DEF Open
    <3> QED
      BY <2>1, <2>2, <3>2, <3>3
  <2> QED
    BY Zenon, <2>3, <2>4
<1>10. InDelay(a, 0)
  BY DEF InDelay, NBSlots
<1> QED
  BY Zenon, <1>1, <1>5, <1>6, <1>8, <1>9, <1>10 DEF CountInv

(* notification_clean and module_notify_update.                            *)
LEMMA CleanStarts ==
    ASSUME CountInv, Notes!Clean \/ \E d \in 1 .. NBDelay : Notes!Second(d)
    PROVE  CountInv'
<1>1. /\ clean = "idle" /\ Notes!CleanFrom(FALSE, None) /\ UNCHANGED <<map, recorded, sent>>
  BY Zenon DEF Notes!Clean, Notes!Second
<1>2. /\ player' \in [NBSlots -> NBRecords]
      /\ \A s \in NBSlots : /\ player'[s].pid = player[s].pid
                            /\ player'[s].value = player[s].value
                            /\ player[s] = NoCount => player'[s] = NoCount
  <2>1. player \in [NBSlots -> NBRecords]
    BY Zenon DEF CountInv, NBTyped
  <2>2. CASE Notes!Clean
    BY Zenon, <2>1, <2>2 DEF Notes!Clean
  <2>3. CASE \E d \in 1 .. NBDelay : Notes!Second(d)
    <3>1. PICK d \in 1 .. NBDelay : Notes!Second(d)
      BY Zenon, <2>3
    <3>2. d \in Nat /\ NBDelay \in Nat
      BY NotesAssumption
    <3>3. player' = [s \in NBSlots |-> IF player[s] = NoCount THEN NoCount
                       ELSE [player[s] EXCEPT !.age = IF @ + d > NBDelay THEN NBDelay
                                                                        ELSE @ + d]]
      BY Zenon, <3>1 DEF Notes!Second, Notes!Slots, Notes!Zero, NBSlots, NoCount
    <3>4. ASSUME NEW s \in NBSlots
          PROVE  /\ player'[s] \in NBRecords
                 /\ player'[s].pid = player[s].pid /\ player'[s].value = player[s].value
                 /\ player[s] = NoCount => player'[s] = NoCount
      <4>1. player[s] \in NBRecords
        BY Zenon, <2>1
      <4>2. CASE player[s] = NoCount
        BY Zenon, <3>3, <4>1, <4>2
      <4>3. CASE player[s] # NoCount
        <5>1. player'[s] = [pid |-> player[s].pid, value |-> player[s].value,
                            age |-> IF player[s].age + d > NBDelay THEN NBDelay
                                    ELSE player[s].age + d]
          BY Zenon, <3>2, <3>3, <4>1, <4>3, CountFields
        <5> QED
          <6>1. player'[s] \in NBRecords
            <7>1. /\ player[s].pid \in Counted \cup {None} /\ player[s].value \in Nat
                  /\ player[s].age + d \in Nat
              BY <3>2, <4>1, NBFields
            <7> QED
              BY <3>2, <5>1, <7>1 DEF NBRecords
          <6> QED
            BY <4>3, <5>1, <6>1
      <4> QED
        BY Zenon, <4>2, <4>3
    <3> QED
      BY Zenon, <3>3, <3>4
  <2> QED
    BY Zenon, <2>2, <2>3
<1>3. recorded' \in [Counted -> Nat] /\ \A q \in Counted : recorded'[q] = recorded[q] + 0
  BY <1>1 DEF CountInv, NBTyped
<1>4. \A q \in Counted : q # None
  BY Zenon, NotesAssumption
<1>5. Begins(FALSE, None, player', recorded')
  BY Zenon, <1>1, <1>2, <1>3, <1>4 DEF Begins
<1> QED
  BY Zenon, <1>5, CleanBegins

(* An entry that is too old is sent, and its place is zero.                *)
LEMMA EntrySent ==
    ASSUME CountInv, Notes!CleanStep, force \/ player[i].age >= NBDelay
    PROVE  CountInv'
<1> DEFINE p == player[i].pid
           val == player[i].value
<1>1. /\ clean = "clean" /\ i < n /\ i' = i + 1
      /\ UNCHANGED <<used, recorded, clean, n, force, todo>>
  BY Zenon DEF Notes!CleanStep
<1>2. /\ map' = [map EXCEPT ![p] = None] /\ sent' = [sent EXCEPT ![p] = @ + val]
      /\ player' = [player EXCEPT ![i] = NoCount]
  BY Zenon DEF Notes!CleanStep, Notes!Zero, NoCount
<1>3. /\ used \in Nat /\ i \in NBSlots /\ n \in Nat /\ used <= i /\ n <= NBCount
      /\ map \in [Counted -> NBSlots \cup {None}] /\ sent \in [Counted -> Nat]
      /\ player \in [NBSlots -> NBRecords]
  BY <1>1, NotesAssumption DEF CountInv, NBTyped, Cleaning, NBSlots
<1>4. p \in Counted /\ map[p] = i /\ val \in Nat
  <2>1. Live(used, i, n, i)
    BY <1>1, <1>3 DEF Live, NBSlots
  <2>2. p \in Counted /\ map[p] = i
    BY Zenon, <1>3, <2>1 DEF CountInv, Agree
  <2>3. player[i] \in NBRecords
    BY Zenon, <1>3
  <2> QED
    BY Zenon, <2>2, <2>3, NBFields
<1> HIDE DEF p, val
<1>5. /\ map'[p] = None /\ sent'[p] = sent[p] + val
      /\ \A q \in Counted \ {p} : map'[q] = map[q] /\ sent'[q] = sent[q]
      /\ player'[i] = NoCount /\ \A s \in NBSlots \ {i} : player'[s] = player[s]
  BY Zenon, <1>2, <1>3, <1>4
<1>6. NBTyped'
  <2>1. NoCount \in NBRecords
    BY Zenon DEF NoCount, NBRecords
  <2>2. /\ player' \in [NBSlots -> NBRecords]
        /\ map' \in [Counted -> NBSlots \cup {None}] /\ sent' \in [Counted -> Nat]
    BY <1>2, <1>3, <1>4, <2>1
  <2>3. i' \in Nat
    BY <1>1 DEF CountInv, NBTyped
  <2> QED
    BY Zenon, <1>1, <2>2, <2>3 DEF CountInv, NBTyped
<1>7. Cleaning'
  <2>1. todo # None => todo \in Counted /\ map[todo] = None
    BY Zenon DEF CountInv, Cleaning, NBTyped
  <2>2. todo # None => map'[todo] = None
    BY Zenon, <1>5, <2>1
  <2> QED
    BY <1>1, <1>3, <2>2 DEF CountInv, Cleaning, NBSlots
<1>8. \A s \in NBSlots : Live(used', i', n', s) <=> Live(used, i, n, s) /\ s # i
  BY <1>1, <1>3 DEF Live, NBSlots
<1>9. \A q \in Counted \ {p} : map[q] # None => map[q] \in NBSlots \ {i}
  BY <1>3, <1>4 DEF CountInv, Agree, p
<1>10. Agree(player', map', used', i', n')
  <2>1. \A q \in Counted : map'[q] # None =>
           Live(used', i', n', map'[q]) /\ player'[map'[q]].pid = q
    BY <1>5, <1>8, <1>9 DEF CountInv, Agree
  <2>2. \A s \in NBSlots \ {i} : Live(used, i, n, s) => player[s].pid # p
    BY Zenon, <1>4 DEF CountInv, Agree
  <2>3. \A s \in NBSlots :
           IF Live(used', i', n', s) THEN player'[s].pid \in Counted /\ map'[player'[s].pid] = s
                                     ELSE player'[s] = NoCount
    BY <1>5, <1>8, <2>2 DEF CountInv, Agree
  <2> QED
    BY Zenon, <2>1, <2>3 DEF Agree
<1>11. Summed(player', map', todo', recorded', sent')
  <2> SUFFICES ASSUME NEW q \in Counted
               PROVE  recorded[q] = sent'[q] + Open(player', map', todo, q)
    BY Zenon, <1>1 DEF Summed
  <2>1. recorded[q] = sent[q] + Open(player, map, todo, q)
    BY Zenon DEF CountInv, Summed
  <2>2. CASE q = p
    <3>1. recorded[q] = sent[p] + (val + (IF todo = p THEN 1 ELSE 0)) /\ sent[p] \in Nat
      BY Zenon, <1>3, <1>4, <2>1, <2>2, NotesAssumption DEF Open, val, NBSlots
    <3> QED
      BY <1>4, <1>5, <2>2, <3>1 DEF Open
  <2>3. CASE q # p
    BY Zenon, <1>5, <1>9, <2>1, <2>3 DEF Open
  <2> QED
    BY Zenon, <2>2, <2>3
<1>12. InDelay(player', used')
  BY <1>1, <1>3, <1>5 DEF CountInv, InDelay, NBSlots
<1> QED
  BY Zenon, <1>6, <1>7, <1>10, <1>11, <1>12 DEF CountInv

(* An entry that is young enough moves down to the first free place, where *)
(* its player finds it.                                                    *)
LEMMA EntryKept ==
    ASSUME CountInv, Notes!CleanStep, ~(force \/ player[i].age >= NBDelay)
    PROVE  CountInv'
<1> DEFINE p == player[i].pid
<1>1. /\ clean = "clean" /\ i < n /\ i' = i + 1 /\ used' = used + 1
      /\ UNCHANGED <<sent, recorded, clean, n, force, todo>>
  BY Zenon DEF Notes!CleanStep
<1>2. IF used = i THEN UNCHANGED <<player, map>>
      ELSE /\ map' = [map EXCEPT ![p] = used]
           /\ player' = [player EXCEPT ![used] = player[i], ![i] = NoCount]
  BY Zenon DEF Notes!CleanStep, Notes!Zero, NoCount
<1>3. /\ used \in NBSlots /\ i \in NBSlots /\ n \in Nat /\ used <= i /\ n <= NBCount
      /\ map \in [Counted -> NBSlots \cup {None}] /\ NBCount \in Nat
      /\ player \in [NBSlots -> NBRecords]
  BY <1>1, NotesAssumption DEF CountInv, NBTyped, Cleaning, NBSlots
<1>4. ~force /\ player[i].age < NBDelay
  <2>1. player[i].age \in Nat /\ NBDelay \in Nat
    BY Zenon, <1>3, NBFields, NotesAssumption
  <2> QED
    BY <2>1
<1>5. p \in Counted /\ map[p] = i
  <2>1. Live(used, i, n, i)
    BY <1>1, <1>3 DEF Live, NBSlots
  <2> QED
    BY Zenon, <1>3, <2>1 DEF CountInv, Agree
<1>6. todo = None
  BY Zenon, <1>4 DEF CountInv, Cleaning
<1> HIDE DEF p
<1>7. Cleaning'
  BY <1>1, <1>4, <1>3, <1>6 DEF CountInv, Cleaning, NBSlots
<1>8. CASE used = i
  <2>1. player' = player /\ map' = map
    BY Zenon, <1>2, <1>8
  <2>2. \A s \in NBSlots : Live(used', i', n', s) <=> Live(used, i, n, s)
    BY <1>1, <1>3, <1>8 DEF Live, NBSlots
  <2>3. NBTyped'
    BY <1>1, <2>1 DEF CountInv, NBTyped
  <2>4. Agree(player', map', used', i', n')
    BY Zenon, <1>3, <2>1, <2>2, NotesAssumption DEF CountInv, Agree
  <2>5. InDelay(player', used')
    BY <1>1, <1>4, <1>3, <1>8, <2>1 DEF CountInv, InDelay, NBSlots
  <2>6. Summed(player', map', todo', recorded', sent')
    BY Zenon, <1>1, <2>1 DEF CountInv
  <2> QED
    BY Zenon, <1>7, <2>3, <2>4, <2>5, <2>6 DEF CountInv
<1>9. CASE used # i
  <2>1. /\ player'[used] = player[i] /\ player'[i] = NoCount
        /\ \A s \in NBSlots \ {i, used} : player'[s] = player[s]
        /\ map'[p] = used /\ \A q \in Counted \ {p} : map'[q] = map[q]
    BY Zenon, <1>2, <1>3, <1>5, <1>9
  <2>2. /\ \A s \in NBSlots :
               Live(used', i', n', s) <=> (Live(used, i, n, s) /\ s # i) \/ s = used
        /\ ~Live(used, i, n, used)
    BY <1>1, <1>3, <1>9 DEF Live, NBSlots
  <2>3. NBTyped'
    <3>1. NoCount \in NBRecords
      BY Zenon DEF NoCount, NBRecords
    <3>2. /\ player' \in [NBSlots -> NBRecords]
          /\ map' \in [Counted -> NBSlots \cup {None}]
      BY Zenon, <1>2, <1>3, <1>5, <1>9, <3>1
    <3>3. i' \in Nat /\ used' \in Nat
      BY <1>1 DEF CountInv, NBTyped
    <3> QED
      BY Zenon, <1>1, <3>2, <3>3 DEF CountInv, NBTyped
  <2>4. \A q \in Counted \ {p} : map[q] # None =>
            /\ map[q] \in NBSlots \ {i, used} /\ Live(used, i, n, map[q])
            /\ player[map[q]].pid = q
    BY <1>3, <1>5, <2>2 DEF CountInv, Agree, p
  <2>5. Agree(player', map', used', i', n')
    <3>1. \A q \in Counted : map'[q] # None =>
             Live(used', i', n', map'[q]) /\ player'[map'[q]].pid = q
      <4> TAKE q \in Counted
      <4>1. CASE q = p
        BY Zenon, <1>3, <2>1, <2>2, <4>1 DEF p
      <4>2. CASE q # p
        BY <2>1, <2>2, <2>4, <4>2
      <4> QED
        BY Zenon, <4>1, <4>2
    <3>2. \A s \in NBSlots \ {i, used} : Live(used, i, n, s) =>
             player[s].pid # p /\ player[s].pid \in Counted /\ map[player[s].pid] = s
      BY Zenon, <1>5 DEF CountInv, Agree
    <3>3. \A s \in NBSlots \ {i, used} : ~Live(used, i, n, s) => player[s] = NoCount
      BY Zenon DEF CountInv, Agree
    <3>4. ASSUME NEW s \in NBSlots
          PROVE  IF Live(used', i', n', s)
                 THEN player'[s].pid \in Counted /\ map'[player'[s].pid] = s
                 ELSE player'[s] = NoCount
      <4>1. CASE s = used
        BY Zenon, <1>5, <2>1, <2>2, <4>1 DEF p
      <4>2. CASE s = i
        BY Zenon, <1>9, <2>1, <2>2, <4>2
      <4>3. CASE s \notin {i, used}
        BY <2>1, <2>2, <3>2, <3>3, <4>3
      <4> QED
        BY Zenon, <4>1, <4>2, <4>3
    <3> QED
      BY Zenon, <3>1, <3>4 DEF Agree
  <2>6. Summed(player', map', todo', recorded', sent')
    <3> SUFFICES ASSUME NEW q \in Counted
                 PROVE  recorded[q] = sent[q] + Open(player', map', todo, q)
      BY Zenon, <1>1 DEF Summed
    <3>1. recorded[q] = sent[q] + Open(player, map, todo, q)
      BY Zenon DEF CountInv, Summed
    <3>2. CASE q = p
      <4>1. map[q] # None /\ map'[q] # None /\ player'[map'[q]] = player[map[q]]
        BY Zenon, <1>3, <1>5, <2>1, <3>2, NotesAssumption DEF NBSlots
      <4> QED
        BY Zenon, <3>1, <4>1 DEF Open
    <3>3. CASE q # p
      <4>1. map'[q] = map[q] /\ (map[q] # None => player'[map[q]] = player[map[q]])
        BY Zenon, <2>1, <2>4, <3>3
      <4> QED
        BY Zenon, <3>1, <4>1 DEF Open
    <3> QED
      BY Zenon, <3>2, <3>3
  <2>7. InDelay(player', used')
    <3> SUFFICES ASSUME NEW s \in NBSlots, s < used'
                 PROVE  player'[s].age < NBDelay
      BY Zenon DEF InDelay
    <3>1. CASE s = used
      BY Zenon, <1>4, <2>1, <3>1
    <3>2. CASE s # used
      <4>1. s < used /\ s # i
        BY <1>1, <1>3, <3>2 DEF NBSlots
      <4> QED
        BY Zenon, <2>1, <3>2, <4>1 DEF CountInv, InDelay
    <3> QED
      BY Zenon, <3>1, <3>2
  <2> QED
    BY Zenon, <1>7, <2>3, <2>5, <2>6, <2>7 DEF CountInv
<1> QED
  BY Zenon, <1>8, <1>9

(* _nb_get of a player without an entry: the place after the last is zero, *)
(* so that the count begins at nothing.                                    *)
Enters(p, rec) ==
    /\ NBTyped /\ Agree(player, map, used, 0, 0) /\ InDelay(player, used)
    /\ used < NBCount /\ map[p] = None /\ Notes!Enter(p)
    /\ clean' = "idle" /\ i' = 0 /\ n' = 0 /\ todo' = None /\ force' \in BOOLEAN
    /\ sent' = sent /\ recorded' = rec /\ rec \in [Counted -> Nat]
    /\ Summed(player, map, p, rec, sent)

LEMMA EnterCounts ==
    ASSUME NEW p \in Counted, NEW rec, Enters(p, rec)
    PROVE  CountInv'
<1> DEFINE e == [pid |-> p, value |-> 1, age |-> 0]
<1>1. /\ used \in NBSlots /\ NBCount \in Nat /\ sent \in [Counted -> Nat]
      /\ map \in [Counted -> NBSlots \cup {None}]
      /\ player \in [NBSlots -> NBRecords]
  <2>1. used \in NBSlots /\ NBCount \in Nat
    BY NotesAssumption DEF Enters, NBTyped, NBSlots
  <2> QED
    BY Zenon, <2>1 DEF Enters, NBTyped
<1>2. /\ \A s \in NBSlots : Live(used, 0, 0, s) <=> s < used
      /\ \A s \in NBSlots : Live(used + 1, 0, 0, s) <=> s < used \/ s = used
      /\ ~(used < used)
  BY <1>1 DEF Live, NBSlots
<1>3. player[used] = NoCount
  BY Zenon, <1>1, <1>2 DEF Enters, Agree
<1>4. /\ player' = [player EXCEPT ![used] = e] /\ map' = [map EXCEPT ![p] = used]
      /\ used' = used + 1
  <2>1. player[used].value + 1 = 1
    BY <1>3 DEF NoCount
  <2> QED
    BY Zenon, <1>1, <2>1 DEF Enters, Notes!Enter
<1>5. /\ e \in NBRecords
      /\ e.pid = p /\ e.value = 1 /\ e.age = 0
  BY Zenon DEF NBRecords
<1> HIDE DEF e
<1>6. /\ player'[used] = e /\ \A s \in NBSlots \ {used} : player'[s] = player[s]
      /\ map'[p] = used /\ \A q \in Counted \ {p} : map'[q] = map[q]
  BY Zenon, <1>1, <1>4
<1>7. NBTyped'
  <2>1. /\ player' \in [NBSlots -> NBRecords]
        /\ map' \in [Counted -> NBSlots \cup {None}] /\ used' \in Nat
    BY <1>1, <1>4, <1>5 DEF NBSlots
  <2>2. /\ i' \in Nat /\ n' \in Nat /\ clean' \in {"idle", "clean"}
        /\ force' \in BOOLEAN /\ todo' \in Counted \cup {None}
        /\ recorded' \in [Counted -> Nat] /\ sent' \in [Counted -> Nat]
    BY Zenon, <1>1 DEF Enters
  <2> QED
    BY Zenon, <2>1, <2>2 DEF NBTyped
<1>8. Cleaning'
  <2>1. clean' = "idle" /\ i' = 0 /\ n' = 0 /\ todo' = None
    BY Zenon DEF Enters
  <2> QED
    BY <1>1, <1>4, <2>1 DEF Cleaning, NBSlots
<1>9. \A q \in Counted \ {p} : map[q] # None =>
          map[q] \in NBSlots \ {used} /\ map[q] < used /\ player[map[q]].pid = q
  BY <1>1, <1>2 DEF Enters, Agree
<1>10. Agree(player', map', used + 1, 0, 0)
  <2>1. \A q \in Counted : map'[q] # None =>
           Live(used + 1, 0, 0, map'[q]) /\ player'[map'[q]].pid = q
    <3> TAKE q \in Counted
    <3>1. CASE q = p
      BY Zenon, <1>1, <1>2, <1>5, <1>6, <3>1
    <3>2. CASE q # p
      BY <1>2, <1>6, <1>9, <3>2
    <3> QED
      BY Zenon, <3>1, <3>2
  <2>2. \A s \in NBSlots \ {used} :
           IF s < used THEN /\ player[s].pid \in Counted /\ map[player[s].pid] = s
                            /\ player[s].pid # p
           ELSE player[s] = NoCount
    <3>1. map[p] = None /\ \A s \in NBSlots : s # None
      BY Zenon, NotesAssumption DEF Enters, NBSlots
    <3> QED
      BY <1>2, <3>1 DEF Enters, Agree
  <2>3. \A s \in NBSlots :
           IF Live(used + 1, 0, 0, s)
           THEN player'[s].pid \in Counted /\ map'[player'[s].pid] = s
           ELSE player'[s] = NoCount
    <3> TAKE s \in NBSlots
    <3>1. CASE s = used
      BY Zenon, <1>2, <1>5, <1>6, <3>1
    <3>2. CASE s # used
      BY <1>2, <1>6, <2>2, <3>2
    <3> QED
      BY Zenon, <3>1, <3>2
  <2> QED
    BY Zenon, <2>1, <2>3 DEF Agree
<1>11. Summed(player', map', None, rec, sent)
  <2> SUFFICES ASSUME NEW q \in Counted
               PROVE  rec[q] = sent[q] + Open(player', map', None, q)
    BY Zenon DEF Summed
  <2>1. rec[q] = sent[q] + Open(player, map, p, q) /\ q # None
    BY Zenon, NotesAssumption DEF Enters, Summed
  <2>2. CASE q = p
    <3>1. map'[q] # None /\ player'[map'[q]].value = 1
      BY Zenon, <1>1, <1>5, <1>6, <2>2, NotesAssumption DEF NBSlots
    <3>2. map[p] = None
      BY Zenon DEF Enters
    <3> QED
      BY <2>1, <2>2, <3>1, <3>2 DEF Open
  <2>3. CASE q # p
    <3>1. map'[q] = map[q] /\ (map[q] # None => player'[map[q]] = player[map[q]])
      BY Zenon, <1>6, <1>9, <2>3
    <3> QED
      BY Zenon, <2>1, <2>3, <3>1 DEF Open
  <2> QED
    BY Zenon, <2>2, <2>3
<1>12. InDelay(player', used + 1)
  <2> SUFFICES ASSUME NEW s \in NBSlots, s < used + 1
               PROVE  player'[s].age < NBDelay
    BY Zenon DEF InDelay
  <2>1. CASE s = used
    BY <1>5, <1>6, <2>1, NotesAssumption
  <2>2. CASE s # used
    <3>1. s < used
      BY <1>1, <2>2 DEF NBSlots
    <3> QED
      BY Zenon, <1>6, <2>2, <3>1 DEF Enters, InDelay
  <2> QED
    BY Zenon, <2>1, <2>2
<1>13. i' = 0 /\ n' = 0 /\ todo' = None /\ recorded' = rec /\ sent' = sent
  BY Zenon DEF Enters
<1> QED
  BY <1>4, <1>7, <1>8, <1>10, <1>11, <1>12, <1>13 DEF CountInv

(* notification_backend.                                                   *)
LEMMA RecordCounts ==
    ASSUME CountInv, NEW p \in Counted, Notes!Record(p)
    PROVE  CountInv'
<1>1. /\ clean = "idle" /\ sent' = sent /\ recorded' = [recorded EXCEPT ![p] = @ + 1]
  BY Zenon DEF Notes!Record
<1>2. /\ i = 0 /\ n = 0 /\ todo = None /\ used <= NBCount /\ used \in Nat /\ NBCount \in Nat
      /\ recorded \in [Counted -> Nat] /\ sent \in [Counted -> Nat]
      /\ map \in [Counted -> NBSlots \cup {None}]
      /\ player \in [NBSlots -> NBRecords]
  BY Zenon, <1>1, NotesAssumption DEF CountInv, NBTyped, Cleaning
<1>3. /\ recorded' \in [Counted -> Nat]
      /\ \A q \in Counted : recorded'[q] = recorded[q] + (IF q = p THEN 1 ELSE 0)
  BY <1>1, <1>2
<1>4. \A q \in Counted : recorded[q] = sent[q] + Open(player, map, None, q) /\ q # None
  BY Zenon, <1>2, NotesAssumption DEF CountInv, Summed
<1>5. CASE map[p] # None
  <2> DEFINE s0 == map[p]
             e == [pid |-> player[s0].pid, value |-> player[s0].value + 1, age |-> 0]
  <2>1. s0 \in NBSlots /\ player[s0] \in NBRecords
    BY Zenon, <1>2, <1>5
  <2>2. /\ player' = [player EXCEPT ![s0].value = @ + 1, ![s0].age = 0]
        /\ UNCHANGED <<used, map, clean, i, n, force, todo>>
    BY Zenon, <1>5 DEF Notes!Record
  <2>3. player' = [player EXCEPT ![s0] = e]
    <3>1. player' = [player EXCEPT ![s0] = [player[s0] EXCEPT !.value = @ + 1, !.age = 0]]
      BY Zenon, <1>2, <2>1, <2>2
    <3> QED
      BY Zenon, <2>1, <3>1, CountFields
  <2>4. /\ e \in NBRecords
        /\ e.pid = player[s0].pid /\ e.value = player[s0].value + 1 /\ e.age = 0
    BY <2>1, NBFields DEF NBRecords
  <2> HIDE DEF s0, e
  <2>5. player'[s0] = e /\ \A s \in NBSlots \ {s0} : player'[s] = player[s]
    BY Zenon, <1>2, <2>1, <2>3
  <2>6. NBTyped' /\ Cleaning'
    <3>1. player' \in [NBSlots -> NBRecords]
      BY Zenon, <1>2, <2>1, <2>3, <2>4
    <3>2. NBTyped'
      BY Zenon, <1>1, <1>3, <2>2, <3>1 DEF CountInv, NBTyped
    <3> QED
      BY Zenon, <2>2, <3>2 DEF CountInv, Cleaning
  <2>7. Live(used, i, n, s0) /\ player[s0].pid = p
    BY Zenon, <1>5 DEF CountInv, Agree, s0
  <2>8. Agree(player', map, used, i, n)
    <3>1. \A s \in NBSlots : player'[s].pid = player[s].pid
      BY Zenon, <2>4, <2>5
    <3>2. \A s \in NBSlots : ~Live(used, i, n, s) => player'[s] = player[s]
      BY Zenon, <2>5, <2>7
    <3> QED
      BY <1>2, <3>1, <3>2 DEF CountInv, Agree
  <2>9. Summed(player', map, None, recorded', sent)
    <3> SUFFICES ASSUME NEW q \in Counted
                 PROVE  recorded'[q] = sent[q] + Open(player', map, None, q)
      BY Zenon DEF Summed
    <3>1. CASE q = p
      <4>0. player[s0].value \in Nat
        BY Zenon, <2>1, NBFields
      <4>1. recorded[q] = sent[q] + player[s0].value
        BY <1>4, <1>5, <3>1, <4>0 DEF Open, s0
      <4>2. Open(player', map, None, q) = player[s0].value + 1
        BY <1>4, <1>5, <2>4, <2>5, <3>1, <4>0 DEF Open, s0
      <4> QED
        BY <1>2, <1>3, <3>1, <4>0, <4>1, <4>2
    <3>2. CASE q # p
      <4>1. map[q] # None => map[q] \in NBSlots \ {s0}
        BY <1>2, <2>7, <3>2 DEF CountInv, Agree
      <4>2. Open(player', map, None, q) = Open(player, map, None, q)
        BY Zenon, <2>5, <4>1 DEF Open
      <4> QED
        BY <1>2, <1>3, <1>4, <3>2, <4>2
    <3> QED
      BY Zenon, <3>1, <3>2
  <2>10. InDelay(player', used)
    BY <2>4, <2>5, NotesAssumption DEF CountInv, InDelay
  <2> QED
    BY <1>1, <1>2, <2>2, <2>6, <2>8, <2>9, <2>10 DEF CountInv
<1>6. CASE map[p] = None /\ used < NBCount
  <2>1. Notes!Enter(p) /\ UNCHANGED <<clean, i, n, force, todo>>
    <3>1. ~(used >= NBCount)
      BY <1>2, <1>6
    <3> QED
      BY Zenon, <1>6, <3>1 DEF Notes!Record
  <2>2. \A q \in Counted : recorded'[q] = sent[q] + Open(player, map, p, q)
    <3> TAKE q \in Counted
    <3>1. CASE q = p
      <4>1. Open(player, map, None, q) = 0 /\ Open(player, map, p, q) = 1
        BY <1>4, <1>6, <3>1 DEF Open
      <4> QED
        BY <1>2, <1>3, <1>4, <3>1, <4>1
    <3>2. CASE q # p
      <4>1. Open(player, map, None, q) = Open(player, map, p, q)
        BY Zenon, <1>4, <3>2 DEF Open
      <4> QED
        BY <1>2, <1>3, <1>4, <3>2, <4>1
    <3> QED
      BY Zenon, <3>1, <3>2
  <2>3. NBTyped /\ Agree(player, map, used, 0, 0) /\ InDelay(player, used) /\ force \in BOOLEAN
    BY Zenon, <1>2 DEF CountInv, NBTyped
  <2>4. Summed(player, map, p, recorded', sent)
    BY Zenon, <2>2 DEF Summed
  <2>5. Enters(p, recorded')
    BY Zenon, <1>1, <1>2, <1>3, <1>6, <2>1, <2>3, <2>4 DEF Enters
  <2> QED
    BY Zenon, <2>5, EnterCounts
<1>7. CASE map[p] = None /\ used >= NBCount
  <2>1. Notes!CleanFrom(TRUE, p) /\ UNCHANGED <<player, map>>
    <3>1. ~(used < NBCount)
      BY <1>2, <1>7
    <3> QED
      BY Zenon, <1>7, <3>1 DEF Notes!Record
  <2>2. Begins(TRUE, p, player, recorded')
    BY Zenon, <1>1, <1>2, <1>3, <1>7, <2>1 DEF Begins
  <2> QED
    BY Zenon, <2>2, CleanBegins
<1> QED
  BY <1>2, <1>5, <1>6, <1>7

(* The end of _nb_clean: the count it made room for is entered.            *)
LEMMA CleanDoneCounts == ASSUME CountInv, Notes!CleanDone PROVE CountInv'
<1>1. /\ clean = "clean" /\ i = n /\ clean' = "idle" /\ i' = 0 /\ n' = 0
      /\ force' = FALSE /\ todo' = None /\ recorded' = recorded /\ sent' = sent
      /\ IF todo = None THEN UNCHANGED <<player, used, map>> ELSE Notes!Enter(todo)
  BY Zenon DEF Notes!CleanDone
<1>2. used \in Nat /\ n \in Nat /\ used <= NBCount /\ NBCount \in Nat \ {0}
  BY Zenon, NotesAssumption DEF CountInv, NBTyped, Cleaning
<1>3. \A s \in NBSlots : Live(used, i, n, s) <=> Live(used, 0, 0, s)
  BY <1>1, <1>2 DEF Live, NBSlots
<1>4. Agree(player, map, used, 0, 0)
  <2>1. map \in [Counted -> NBSlots \cup {None}]
    BY Zenon DEF CountInv, NBTyped
  <2> QED
    BY Zenon, <1>3, <2>1 DEF CountInv, Agree
<1>5. CASE todo = None
  <2>1. player' = player /\ used' = used /\ map' = map
    BY Zenon, <1>1, <1>5
  <2>2. NBTyped'
    BY Zenon, <1>1, <2>1, <1>5 DEF CountInv, NBTyped
  <2>3. Cleaning'
    BY <1>1, <1>2, <2>1 DEF Cleaning
  <2> QED
    BY Zenon, <1>1, <1>4, <1>5, <2>1, <2>2, <2>3 DEF CountInv
<1>6. CASE todo # None
  <2>1. todo \in Counted /\ map[todo] = None /\ used < NBCount
    BY <1>1, <1>2, <1>6 DEF CountInv, NBTyped, Cleaning
  <2>2. /\ NBTyped /\ InDelay(player, used) /\ recorded \in [Counted -> Nat]
        /\ Summed(player, map, todo, recorded, sent)
    BY Zenon DEF CountInv, NBTyped
  <2>3. Notes!Enter(todo)
    BY Zenon, <1>1, <1>6
  <2>4. Enters(todo, recorded)
    BY Zenon, <1>1, <1>4, <2>1, <2>2, <2>3 DEF Enters
  <2> QED
    BY Zenon, <2>1, <2>4, EnterCounts
<1> QED
  BY Zenon, <1>5, <1>6

(* The lists and the counts do not touch each other, but for               *)
(* notification_clean.                                                     *)
LEMMA NotesStep == ListsInv /\ CountInv /\ [Notes!Next]_(Notes!vars) => ListsInv' /\ CountInv'
<1> SUFFICES ASSUME ListsInv, CountInv, [Notes!Next]_(Notes!vars)
             PROVE  ListsInv' /\ CountInv'
  BY Zenon
<1>1. ASSUME UNCHANGED <<l, last>> PROVE ListsInv'
  <2>1. \A p \in Notified : Lasts(l[p], last[p])
    BY Zenon, LastsOf DEF ListsInv
  <2> QED
    BY Zenon, <1>1, <2>1, LastsOfNext DEF ListsInv
<1>2. ASSUME UNCHANGED <<player, used, map, recorded, sent, clean, i, n, force, todo>>
      PROVE  CountInv'
  BY Zenon, <1>2 DEF CountInv, NBTyped, Cleaning
<1>3. CASE \E p \in Notified, v \in Contents :
             Notes!Add(p, v) \/ \E k \in Keys : Notes!Set(p, k, v)
  <2>1. ListsInv'
    BY Zenon, <1>3, AddSetLists
  <2>2. UNCHANGED <<player, used, map, recorded, sent, clean, i, n, force, todo>>
    BY Zenon, <1>3 DEF Notes!Add, Notes!Set, Notes!countVars
  <2> QED
    BY Zenon, <1>2, <2>1, <2>2
<1>4. CASE Notes!Clean \/ \E d \in 1 .. NBDelay : Notes!Second(d)
  BY Zenon, <1>4, CleanLists, CleanStarts
<1>5. CASE \/ \E p \in Counted : Notes!Record(p)
           \/ Notes!CleanStep \/ Notes!CleanDone
  <2>1. UNCHANGED <<l, last>>
    BY Zenon, <1>5 DEF Notes!Record, Notes!CleanStep, Notes!CleanDone, Notes!queueVars
  <2> QED
    BY Zenon, <1>1, <1>5, <2>1, RecordCounts, EntrySent, EntryKept, CleanDoneCounts
<1>6. CASE UNCHANGED Notes!vars
  BY Zenon, <1>1, <1>2, <1>6 DEF Notes!vars, Notes!queueVars, Notes!countVars
<1> QED
  BY Zenon, <1>3, <1>4, <1>5, <1>6 DEF Notes!Next

(* Between requests the counts are what the properties say.                *)
LEMMA NotesGive == ListsInv /\ CountInv => NotesKept
<1> SUFFICES ASSUME ListsInv, CountInv, clean = "idle"
             PROVE  Notes!MapMatches /\ Notes!CountsKept /\ Notes!SentInTime
  BY Zenon DEF NotesKept, ListsInv, Notes!MapMatches, Notes!CountsKept, Notes!SentInTime
<1>1. /\ i = 0 /\ n = 0 /\ todo = None /\ used \in Nat
      /\ map \in [Counted -> NBSlots \cup {None}]
      /\ player \in [NBSlots -> NBRecords]
  BY Zenon DEF CountInv, NBTyped, Cleaning
<1>2. \A s \in NBSlots : Live(used, 0, 0, s) <=> s < used
  BY <1>1 DEF Live, NBSlots
<1>3. Notes!Slots = NBSlots /\ Notes!Zero = NoCount
  BY Zenon DEF Notes!Slots, NBSlots, Notes!Zero, NoCount
<1>4. Notes!MapMatches
  <2>1. Agree(player, map, used, 0, 0)
    BY Zenon, <1>1 DEF CountInv
  <2>2. \A p \in Counted : map[p] # None => map[p] < used /\ player[map[p]].pid = p
    BY <1>1, <1>2, <2>1 DEF Agree
  <2>3. \A s \in NBSlots : IF s < used THEN map[player[s].pid] = s ELSE player[s] = NoCount
    BY Zenon, <1>2, <2>1 DEF Agree
  <2> QED
    BY Zenon, <1>3, <2>2, <2>3 DEF Notes!MapMatches
<1>5. Notes!CountsKept
  <2> SUFFICES ASSUME NEW p \in Counted
               PROVE  recorded[p] = sent[p] +
                          (IF map[p] = None THEN 0 ELSE player[map[p]].value)
    BY Zenon DEF Notes!CountsKept
  <2>1. recorded[p] = sent[p] + Open(player, map, None, p) /\ p # None
    BY Zenon, <1>1, NotesAssumption DEF CountInv, Summed
  <2>2. map[p] # None => player[map[p]].value \in Nat
    BY Zenon, <1>1, NBFields
  <2> QED
    BY <2>1, <2>2 DEF Open
<1>6. Notes!SentInTime
  BY Zenon, <1>3 DEF Notes!SentInTime, CountInv, InDelay
<1> QED
  BY Zenon, <1>4, <1>5, <1>6

(* A client is sent the last value of every key once, and of the counts    *)
(* for the backend none is lost, sent twice or forgotten, whatever         *)
(* overflows of the array and moves of its entries come in between.        *)
THEOREM NotesKeptHolds == Notes!Spec => []NotesKept
<1>1. Notes!Init => ListsInv /\ CountInv
  <2>1. Notes!Init => ListsInv
    <3> SUFFICES ASSUME Notes!Init PROVE ListsInv
      BY Zenon
    <3>1. /\ l = [p \in Notified |-> <<>>]
          /\ last = [p \in Notified |-> [k \in Keys |-> None]]
      BY Zenon DEF Notes!Init
    <3>2. /\ l \in [Notified -> Seq(Notes!Entry)]
          /\ last \in [Notified -> [Keys -> Contents \cup {None}]]
          /\ \A p \in Notified : Lasts(l[p], last[p])
      BY <3>1 DEF Lasts
    <3> QED
      BY Zenon, <3>2, LastsOf DEF ListsInv
  <2> QED
    BY Zenon, <2>1, CountInit
<1> QED
  BY <1>1, NotesStep, NotesGive, PTL DEF Notes!Spec
=============================================================================
