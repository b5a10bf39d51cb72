------------------------------ MODULE Addicted ------------------------------
(***************************************************************************)
(* The limits on the playing time of minors, src/world/addicted.c, with    *)
(* the two places that call it: process_message of src/world/dispatch.c    *)
(* and login and logout of src/world/logic/aL.c.  addictedConfig.enable is *)
(* set.                                                                    *)
(*                                                                         *)
(* A player that may be a minor has a PlayerAddictedInfo with a timer of   *)
(* module Timer; the callback checkPlayer measures the time played, kicks  *)
(* the player or sets the next timer.  Adults share one info and have no   *)
(* timer.                                                                  *)
(*                                                                         *)
(* A handler that adds a timer and removes it again leaves the wheel as it *)
(* was, so that each step below changes one timer at most.                 *)
(***************************************************************************)
EXTENDS Timer

CONSTANTS
    Players,
    Young,          \* force_young_player
    NoRole,         \* players without a character
    NoTimer,        \* info->timer = 0
    KickTime, NotifyTime, RestTime,     \* AddictedConfig
    CheckDelay,     \* 5, the delay of the first check
    Grace,          \* 3, what is allowed beyond KickTime
    Extra,          \* 5, when the check for the kick comes
    FirstNotify     \* 60, when the first notification is sent

ASSUME AddictedAssumption ==
    /\ Players # {} /\ Young \subseteq Players /\ NoRole \subseteq Players
    /\ NoTimer \notin Timers
    /\ Cardinality(Timers) > Cardinality(Players)
    /\ NotifyTime \in Nat \ {0} /\ KickTime \in Nat \ {0} /\ RestTime \in Nat
    /\ Grace \in Nat /\ Extra \in Nat /\ Grace < Extra /\ FirstNotify \in Nat
    /\ CheckDelay \in Nat \ {0} /\ CheckDelay < MaxTimer

VARIABLES
    info,           \* the entry of players: "none", "adult" or "watched"
    timer,          \* info->timer
    sended,         \* info->sended is not 0
    owner,          \* timer->data, the player of the info
    online,         \* the players of player_online
    played, login, logout       \* of the Property of a player

infoVars == <<info, timer, sended, owner>>
propVars == <<online, played, login, logout>>
addictedVars == <<vars, infoVars, propVars>>

\* module_addicted_load; the players were last seen when the clock started.
AddictedInit ==
    /\ Init
    /\ info = [p \in Players |-> "none"]
    /\ timer = [p \in Players |-> NoTimer]
    /\ sended = [p \in Players |-> FALSE]
    /\ owner \in {[t \in Timers |-> p] : p \in {CHOOSE q \in Players : TRUE}}
    /\ online = {}
    /\ played = [p \in Players |-> 0]
    /\ login = [p \in Players |-> 1]
    /\ logout = [p \in Players |-> 1]
----------------------------------------------------------------------------
(* The infos and their timers.                                             *)

\* Mutant: the timer of an info that is freed stays in the wheel.
SetInfoKeepsTimer(p, v) ==
    /\ info' = [info EXCEPT ![p] = v]
    /\ IF v = "watched" /\ info[p] # "watched"
       THEN \E t \in Timers :
                /\ Free(t)
                /\ TimerAdd(t, now + CheckDelay)
                /\ timer' = [timer EXCEPT ![p] = t]
                /\ owner' = [owner EXCEPT ![t] = p]
       ELSE UNCHANGED <<wheel, at, timer, owner>>
    /\ sended' = [sended EXCEPT ![p] = v = "watched" /\ @]
    /\ UNCHANGED <<next, list, now, pc>>

\* The entry of p becomes v: addicted_login allocates an info and its timer;
\* addicted_logout and addicted_set_adult free them.
SetInfo(p, v) ==
    /\ info' = [info EXCEPT ![p] = v]
    /\ CASE v = "watched" /\ info[p] # "watched" ->
              \E t \in Timers :
                  /\ Free(t)
                  /\ TimerAdd(t, now + CheckDelay)
                  /\ timer' = [timer EXCEPT ![p] = t]
                  /\ owner' = [owner EXCEPT ![t] = p]
         [] v # "watched" /\ info[p] = "watched" ->
              /\ TimerRemove(timer[p])
              /\ timer' = [timer EXCEPT ![p] = NoTimer]
              /\ UNCHANGED owner
         [] (v = "watched") = (info[p] = "watched") ->
              UNCHANGED <<wheel, at, timer, owner>>
    /\ sended' = [sended EXCEPT ![p] = v = "watched" /\ @]
    /\ UNCHANGED <<next, list, now, pc>>

\* The time played on record after addicted_can_login of an info with value v:
\* it is forgotten after RestTime.
Rested(p, v) ==
    IF v # "adult" /\ p \notin NoRole /\ now - logout[p] >= RestTime
    THEN 0 ELSE played[p]

\* addicted_can_login
CanLogin(p, v) == v = "adult" \/ p \in NoRole \/ Rested(p, v) < KickTime

\* The entry of p after the part of process_message before the handler:
\* addicted_login, if the player may log in.
Admitted(p) ==
    IF info[p] = "none" /\ CanLogin(p, info[p]) THEN "watched" ELSE info[p]

\* The Property of p after addicted_logout and aL_logout of a player that is
\* online, with time on record and an info of value v.
LoggedOut(p, time, v) ==
    /\ played' = [played EXCEPT ![p] =
            IF v = "watched" /\ login[p] > logout[p]
            THEN time + now - login[p] ELSE time]
    /\ logout' = [logout EXCEPT ![p] = now]
----------------------------------------------------------------------------
(* Messages of a player.                                                   *)

\* process_message with a command other than login and logout.  It is dropped
\* if the player may not log in.
Other(p) ==
    /\ pc = "idle"
    /\ SetInfo(p, Admitted(p))
    /\ online' = IF CanLogin(p, info[p]) THEN online \cup ({p} \ NoRole)
                                         ELSE online
    /\ played' = [played EXCEPT ![p] = Rested(p, info[p])]
    /\ UNCHANGED <<login, logout>>

\* process_message and aL_login of an adult.
LoginAdult(p) ==
    /\ pc = "idle"
    /\ p \notin Young
    /\ SetInfo(p, "adult")
    /\ online' = online \cup ({p} \ NoRole)
    /\ played' = [played EXCEPT ![p] = Rested(p, info[p])]
    /\ login' = IF p \in NoRole THEN login ELSE [login EXCEPT ![p] = now]
    /\ UNCHANGED logout

\* process_message and aL_login of a minor: one that may not log in is unloaded.
LoginYoung(p) ==
    /\ pc = "idle"
    /\ p \in Young
    /\ UNCHANGED logout
    /\ LET first == CanLogin(p, info[p])
           both == first /\ CanLogin(p, "watched")
       IN /\ SetInfo(p, IF first THEN "watched" ELSE info[p])
          /\ played' = [played EXCEPT ![p] =
                            Rested(p, IF first THEN "watched" ELSE info[p])]
          /\ online' = IF both THEN online \cup ({p} \ NoRole) ELSE online \ {p}
          /\ login' = IF both /\ p \notin NoRole
                      THEN [login EXCEPT ![p] = now] ELSE login

\* process_message and aL_logout.  The player stays in player_online: see
\* SetOffline in module World.  Without a character the request is not
\* queued, and the message is as any other.
Logout(p) ==
    /\ pc = "idle"
    /\ p \notin NoRole
    /\ SetInfo(p, IF Admitted(p) = "watched" THEN "none" ELSE Admitted(p))
    /\ online' = online \cup {p}
    /\ LoggedOut(p, Rested(p, info[p]), Admitted(p))
    /\ UNCHANGED login

\* do_pbc_admin_player_kick: kickPlayer, which calls aL_logout.
Kick(p) ==
    /\ pc = "idle"
    /\ p \notin NoRole
    /\ SetInfo(p, IF info[p] = "watched" THEN "none" ELSE info[p])
    /\ IF p \in online THEN LoggedOut(p, played[p], info[p])
                      ELSE UNCHANGED <<played, logout>>
    /\ UNCHANGED <<online, login>>

\* do_pbc_set_adult of a service: addicted_set_adult or addicted_set_minority.
SetAdult(p, v) ==
    /\ pc = "idle"
    /\ SetInfo(p, v)
    /\ UNCHANGED propVars

\* player_unload, by a service or for a player that is banned.
Unload(p) ==
    /\ pc = "idle"
    /\ p \in online
    /\ online' = online \ {p}
    /\ UNCHANGED <<vars, infoVars, played, login, logout>>
----------------------------------------------------------------------------
(* checkPlayer, the callback of timer t.                                   *)

Played(p) == played[p] + next - login[p]

Gone(p, t) ==
    /\ p \notin online
    /\ FireNothing(t)
    /\ info' = [info EXCEPT ![p] = "none"]
    /\ timer' = [timer EXCEPT ![p] = NoTimer]
    /\ sended' = [sended EXCEPT ![p] = FALSE]
    /\ UNCHANGED <<owner, propVars>>

\* kickPlayer, which logs the player out.
Kicked(p, t) ==
    /\ p \in online
    /\ Played(p) >= KickTime + Grace
    /\ login[p] > 0
    /\ FireNothing(t)
    /\ info' = [info EXCEPT ![p] = "none"]
    /\ timer' = [timer EXCEPT ![p] = NoTimer]
    /\ sended' = [sended EXCEPT ![p] = FALSE]
    /\ LoggedOut(p, played[p], "watched")
    /\ UNCHANGED <<owner, online, login>>

Sent(p) ==
    \/ sended[p]
    \/ Played(p) >= KickTime
    \/ Played(p) % NotifyTime = 0
    \/ next - login[p] >= FirstNotify

Least(a, b) == IF a < b THEN a ELSE b

\* Mutant: the check comes with the next notification only.
StepNotify(p) == Least(NotifyTime - (Played(p) % NotifyTime), MaxTimer - 1)

\* The seconds to the next check.
Step(p) ==
    LET secKick == KickTime - Played(p) + Extra
        hour == NotifyTime - (Played(p) % NotifyTime)
        secNotify == IF Sent(p) THEN hour
                     ELSE Least(hour, FirstNotify - (next - login[p]))
    IN Least(Least(secKick, secNotify), MaxTimer - 1)

Rearm(p, t) ==
    /\ p \in online
    /\ Played(p) < KickTime + Grace
    /\ \E u \in Timers :
           /\ Free(u)
           /\ FireAdd(t, u, next + Step(p))
           /\ timer' = [timer EXCEPT ![p] = u]
           /\ owner' = [owner EXCEPT ![u] = p]
    /\ sended' = [sended EXCEPT ![p] = Sent(p)]
    /\ UNCHANGED <<info, propVars>>

Check(t) ==
    /\ pc = "fire"
    /\ t \in list
    /\ Gone(owner[t], t) \/ Kicked(owner[t], t) \/ Rearm(owner[t], t)
----------------------------------------------------------------------------
Wheel ==
    /\ (\E s \in Times : Second(s)) \/ TakeSlot \/ SlotDone \/ UpdateDone
    /\ UNCHANGED <<infoVars, propVars>>

AddictedNext ==
    \/ Wheel
    \/ \E t \in Timers : Check(t)
    \/ \E p \in Players :
           \/ Other(p) \/ LoginAdult(p) \/ LoginYoung(p) \/ Logout(p)
           \/ Kick(p) \/ Unload(p)
           \/ \E v \in {"adult", "watched"} : SetAdult(p, v)

AddictedSpec == AddictedInit /\ [][AddictedNext]_addictedVars
----------------------------------------------------------------------------
(* Properties.                                                             *)

AddictedTypeOK ==
    /\ TypeOK
    /\ info \in [Players -> {"none", "adult", "watched"}]
    /\ timer \in [Players -> Timers \cup {NoTimer}]
    /\ sended \in [Players -> BOOLEAN]
    /\ owner \in [Timers -> Players]
    /\ online \subseteq Players \ NoRole
    /\ played \in [Players -> Nat]
    /\ login \in [Players -> Nat] /\ logout \in [Players -> Nat]

\* The infos that are allocated and the timers in the wheel belong to each other:
\* checkPlayer never runs with an info that addicted_logout, addicted_set_adult
\* or checkPlayer has freed, and no info is left without a timer, whose player
\* would not be checked again.
InfoHasTimer ==
    /\ \A t \in Timers : ~Free(t) =>
           info[owner[t]] = "watched" /\ timer[owner[t]] = t
    /\ \A p \in Players :
           IF info[p] = "watched"
           THEN /\ timer[p] # NoTimer
                /\ ~Free(timer[p])
                /\ owner[timer[p]] = p
           ELSE timer[p] = NoTimer

\* The next check of a player comes before the limit is exceeded by more than
\* Extra seconds, or within CheckDelay seconds (a player whose watching has just
\* begun), whatever logins, kicks and changes of age have happened.
CheckedInTime ==
    pc = "idle" => \A p \in Players : info[p] = "watched" =>
        LET a == at[timer[p]]
        IN played[p] + a - login[p] <= KickTime + Extra \/ a <= now + CheckDelay
============================================================================
