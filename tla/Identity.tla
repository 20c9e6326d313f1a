------------------------------ MODULE Identity ------------------------------
(***************************************************************************)
(* Who the players are (backend/websocket.go handleJoin and                *)
(* handleUpdateProfile, backend/server.go handleProfileUpdate): names,     *)
(* flags and session tokens, what the write-ahead log and the snapshot say *)
(* of them, and what a boot makes of the two (backend/persistence.go).     *)
(*                                                                         *)
(* All handlers run under stateMu and each is one action.  A request that  *)
(* is refused without changing anything is no action.  Storage is cut down *)
(* to what both kinds have in common: a flush makes a longer part of the   *)
(* log durable, a snapshot is captured at once, and the part of the log    *)
(* that was durable before it is removed later, if at all.                 *)
(***************************************************************************)
EXTENDS Integers, Sequences, FiniteSets, SequencesExt, Functions

CONSTANTS
    Id,          \* player ids
    Name,        \* valid user names
    NoName,      \* the field was left empty
    BadName,     \* a name that the rules refuse
    DefaultName, \* DefaultName[i]: the name User0000i
    FreeFlag,    \* the default flag, usable by everybody
    PaidFlag,    \* a flag that an advancement unlocks
    Conn,        \* connections
    Offers,      \* what the players of one behaviour may ask for: names,
                 \* flags and, as a bound, how many entries are logged
    MaxKills     \* bound: kills

ASSUME IdentityAssumption ==
    /\ IsFiniteSet(Id) /\ Id = 1 .. Cardinality(Id)
    /\ {NoName, BadName} \cap Name = {}
    /\ DefaultName \in [Id -> Name]
    /\ FreeFlag # PaidFlag
    /\ Offers \subseteq [names : SUBSET (Name \cup {BadName}), flags : SUBSET {FreeFlag, PaidFlag},
                    entries : Nat]
    /\ MaxKills \in Nat

Flag == {FreeFlag, PaidFlag}

VARIABLES
    offer,        \* what the players of this behaviour may ask for
    players,      \* the maps in memory: names, index (nameToPlayerID), flags,
                  \* unlocked, tokens (sessionTokens), next (nextPlayerID)
    connections,  \* connections[k]: who k plays for and its copies of the name
                  \* and the flag (Player.Name, Player.FlagID); or Spectator
    issued,       \* history: how many tokens were ever issued
    log,          \* the entries written so far, from the first one on
    durable,      \* how many of them are stored
    removed,      \* how many of them have been removed from storage again
    snapshot,     \* the snapshot: the maps and how much of the log they cover
    listed,       \* what the snapshot still has to remove of the log
    kills,        \* history: kills so far
    outdated      \* history: whether a boot replayed a log that ends before
                  \* the snapshot it was replayed on

storage == <<durable, removed, snapshot, listed, kills, outdated>>
vars == <<offer, players, connections, issued, log, storage>>

Spectator == [id |-> 0, name |-> NoName, flag |-> FreeFlag]

Nobody == [names |-> <<>>, index |-> <<>>, flags |-> <<>>, unlocked |-> {},
           tokens |-> <<>>, next |-> 1]

Init ==
    /\ offer \in Offers
    /\ players = Nobody
    /\ connections = [k \in Conn |-> Spectator]
    /\ issued = 0
    /\ log = <<>>
    /\ durable = 0 /\ removed = 0
    /\ snapshot = [maps |-> Nobody, upTo |-> 0]  \* initPersistence saves one
    /\ listed = 0
    /\ kills = 0
    /\ outdated = FALSE

-----------------------------------------------------------------------------
(* The rules. *)

\* Variant: only the player's own name is looked at.
VariantTaken(n, p) == FALSE
Taken(n, p) == n \in DOMAIN players.index /\ players.index[n] # p

\* Variant: a flag that is not unlocked is taken for a free one.
VariantIsFlagUnlocked(p, f) == TRUE

\* isFlagUnlockedLocked: free, unlocked, or carried already.
IsFlagUnlocked(p, f) ==
    \/ f # PaidFlag
    \/ p \in players.unlocked
    \/ p \in DOMAIN players.flags /\ players.flags[p] = f

\* The map f with k pointing to v, and the map f without k.
Put(f, k, v) == [x \in DOMAIN f \cup {k} |-> IF x = k THEN v ELSE f[x]]
Drop(f, k) == [x \in DOMAIN f \ {k} |-> f[x]]

\* A player gets a new name: the old one leaves the index.
Renamed(m, p, n) ==
    IF m.names[p] = n THEN m
    ELSE [m EXCEPT !.index = Put(Drop(@, m.names[p]), n, p), !.names[p] = n]

\* walLogPlayerLocked; the token only when it was just created.
PlayerEntry(p, m, t) == [id |-> p, name |-> m.names[p], flag |-> m.flags[p], token |-> t]
NoToken == 0

Logs(e) == log' = Append(log, e)

-----------------------------------------------------------------------------
(* Requests. *)

\* handleJoin without a valid token: a name that is taken is refused, one that
\* is not valid is replaced by a default name that is free.
JoinNew(k, wish, f) ==
    /\ connections[k] = Spectator /\ players.next \in Id
    /\ LET p == players.next
           t == issued + 1
           free == Name \ DOMAIN players.index
           flag == IF IsFlagUnlocked(p, f) THEN f ELSE FreeFlag
       IN  \E n \in IF wish # BadName THEN {wish} \ {x \in Name : Taken(x, 0)}
                    ELSE IF DefaultName[p] \in free THEN {DefaultName[p]}
                    ELSE Range(DefaultName) \cap free :
              /\ players' = [players EXCEPT
                    !.names = Put(@, p, n), !.index = Put(@, n, p),
                    !.flags = Put(@, p, flag), !.tokens = Put(@, t, p),
                    !.next = p + 1]
              /\ connections' = [connections EXCEPT ![k] = [id |-> p, name |-> n, flag |-> flag]]
              /\ issued' = t
              /\ Logs(PlayerEntry(p, players', t))
    /\ UNCHANGED storage

\* handleJoin with a valid token, and handleUpdateProfile: what becomes of the
\* maps when p asks for name n and flag f.  A refused name does not keep the
\* flag from changing.
Refused(p, n) == n # NoName /\ players.names[p] # n /\ (n = BadName \/ Taken(n, p))
Changed(p, n, f) ==
    LET m == IF n = NoName \/ Refused(p, n) THEN players ELSE Renamed(players, p, n)
    IN  IF IsFlagUnlocked(p, f) THEN [m EXCEPT !.flags[p] = f] ELSE m
LogsUnlessRefused(p, n) ==
    IF Refused(p, n) THEN UNCHANGED log ELSE Logs(PlayerEntry(p, players', NoToken))

JoinBack(k, t, n, f) ==
    /\ connections[k] = Spectator /\ t \in DOMAIN players.tokens
    /\ LET p == players.tokens[t]
       IN  /\ players' = Changed(p, n, f)
           /\ LogsUnlessRefused(p, n)
           /\ connections' = IF Refused(p, n) THEN connections
                 ELSE [connections EXCEPT
                    ![k] = [id |-> p, name |-> players'.names[p], flag |-> players'.flags[p]]]
    /\ UNCHANGED <<issued, storage>>

\* The connection's own copies change with the maps and are what the answer
\* (UpdateAck) reports.
UpdateProfile(k, n, f) ==
    /\ connections[k] # Spectator
    /\ LET p == connections[k].id
           renamed == n # NoName /\ players.names[p] # n /\ ~ Refused(p, n)
           reflagged == players.flags[p] # f /\ IsFlagUnlocked(p, f)
       IN  /\ players' = Changed(p, n, f)
           /\ LogsUnlessRefused(p, n)
           /\ connections' = [connections EXCEPT
                 ![k].name = IF renamed THEN n ELSE @,
                 ![k].flag = IF reflagged THEN f ELSE @]
    /\ UNCHANGED <<issued, storage>>

\* handleProfileUpdate, over HTTP: a refused name ends it.
ProfileUpdate(t, n, f) ==
    /\ t \in DOMAIN players.tokens
    /\ LET p == players.tokens[t]
       IN  /\ ~ Refused(p, n)
           /\ players' = Changed(p, n, f)
           /\ Logs(PlayerEntry(p, players', NoToken))
    /\ UNCHANGED <<connections, issued, storage>>

\* Play that unlocks the flag; handleReveal logs it (see World).
Unlock(p) ==
    /\ p \in DOMAIN players.names /\ p \notin players.unlocked
    /\ \E k \in Conn : connections[k].id = p
    /\ players' = [players EXCEPT !.unlocked = @ \cup {p}]
    /\ Logs([unlock |-> p])
    /\ UNCHANGED <<connections, issued, storage>>

Leave(k) ==
    /\ connections[k] # Spectator
    /\ connections' = [connections EXCEPT ![k] = Spectator]
    /\ UNCHANGED <<players, issued, log, storage>>

-----------------------------------------------------------------------------
(* Storage and boots. *)

Flush ==
    /\ durable' \in durable + 1 .. Len(log)
    /\ UNCHANGED <<players, connections, issued, log, removed, snapshot, listed, kills, outdated>>

SaveSnapshot ==
    /\ snapshot' = [maps |-> players, upTo |-> Len(log)]
    /\ listed' \in removed .. durable
    /\ UNCHANGED <<players, connections, issued, log, durable, removed, kills, outdated>>

TruncateLog ==
    /\ removed' \in removed + 1 .. listed
    /\ UNCHANGED <<players, connections, issued, log, durable, snapshot, listed, kills, outdated>>

\* Variant: the next id is taken from the snapshot alone.
VariantReplayPlayer(m, e) ==
    LET old == IF e.id \in DOMAIN m.names /\ m.names[e.id] # e.name
               THEN Drop(m.index, m.names[e.id]) ELSE m.index
    IN  [m EXCEPT !.names = Put(@, e.id, e.name), !.index = Put(old, e.name, e.id),
                  !.flags = Put(@, e.id, e.flag),
                  !.tokens = IF e.token = NoToken THEN @ ELSE Put(@, e.token, e.id)]

\* Variant: the name a player had stays in the index.
VariantKeepsOldName(m, e) ==
    [m EXCEPT !.names = Put(@, e.id, e.name), !.index = Put(@, e.name, e.id),
              !.flags = Put(@, e.id, e.flag),
              !.tokens = IF e.token = NoToken THEN @ ELSE Put(@, e.token, e.id),
              !.next = IF e.id >= @ THEN e.id + 1 ELSE @]

ReplayPlayer(m, e) ==
    LET old == IF e.id \in DOMAIN m.names /\ m.names[e.id] # e.name
               THEN Drop(m.index, m.names[e.id]) ELSE m.index
    IN  [m EXCEPT !.names = Put(@, e.id, e.name), !.index = Put(old, e.name, e.id),
                  !.flags = Put(@, e.id, e.flag),
                  !.tokens = IF e.token = NoToken THEN @ ELSE Put(@, e.token, e.id),
                  !.next = IF e.id >= @ THEN e.id + 1 ELSE @]

ReplayEntry(m, e) ==
    IF "unlock" \in DOMAIN e THEN [m EXCEPT !.unlocked = @ \cup {e.unlock}]
                             ELSE ReplayPlayer(m, e)

\* restoreSnapshotData builds the index anew, where of two players with one
\* name any one may get it (the order of a Go map); the log is replayed on top.
Restored ==
    LET m == snapshot.maps
    IN  {[m EXCEPT !.index = idx] :
            idx \in {g \in [Range(m.names) -> DOMAIN m.names] :
                        \A n \in DOMAIN g : m.names[g[n]] = n}}
Rebuilt(last) ==
    {FoldLeft(ReplayEntry, m, SubSeq(log, removed + 1, last)) : m \in Restored}

\* A kill and the boot that follows.
Reboot ==
    /\ kills < MaxKills
    /\ kills' = kills + 1
    /\ players' \in Rebuilt(durable)
    /\ log' = SubSeq(log, 1, durable)
    /\ snapshot' = [snapshot EXCEPT !.upTo = IF @ > durable THEN durable ELSE @]
    /\ outdated' = (outdated \/ (removed < durable /\ durable < snapshot.upTo))
    /\ connections' = [k \in Conn |-> Spectator]
    /\ listed' = removed
    /\ UNCHANGED <<issued, durable, removed>>

Request ==
    /\ Len(log) < offer.entries
    /\ \/ \E k \in Conn, n \in offer.names, f \in offer.flags : JoinNew(k, n, f)
       \/ \E k \in Conn, t \in 1 .. issued, n \in offer.names \cup {NoName}, f \in offer.flags :
             JoinBack(k, t, n, f)
       \/ \E k \in Conn, n \in offer.names \cup {NoName}, f \in offer.flags :
             UpdateProfile(k, n, f)
       \/ \E t \in 1 .. issued, n \in offer.names \cup {NoName}, f \in offer.flags :
             ProfileUpdate(t, n, f)
       \/ PaidFlag \in offer.flags /\ \E p \in Id : Unlock(p)

Next ==
    /\ \/ Request
       \/ \E k \in Conn : Leave(k)
       \/ Flush \/ SaveSnapshot \/ TruncateLog \/ Reboot
    /\ UNCHANGED offer

Spec == Init /\ [][Next]_vars

-----------------------------------------------------------------------------
(* Properties. *)

\* The fast name lookup is the inverse of the names, so no two players share
\* one: through renames that free and reuse names, boots that replay old
\* entries over newer snapshots, and joins from several connections; as long
\* as no boot replays a log that ends before its snapshot.
IndexExact ==
    ~ outdated =>
        /\ DOMAIN players.index = Range(players.names)
        /\ \A p \in DOMAIN players.names : players.index[players.names[p]] = p

\* A token opens the identity it was issued for and no other: ids that were
\* lost in a kill are given away again, and the tokens lost with them do not
\* open what the new owner plays.
TokensApart == IsInjective(players.tokens)

\* Nobody carries a flag without having unlocked it, in the maps or in the
\* copy of a connection, also when a kill takes the unlock away.
PaidFlagsEarned ==
    /\ \A p \in DOMAIN players.flags :
          players.flags[p] = PaidFlag => p \in players.unlocked
    /\ \A k \in Conn : connections[k].flag = PaidFlag => connections[k].id \in players.unlocked

\* Once everything is flushed, a boot restores every name, token and unlock as
\* they were, whichever part of the log a snapshot has removed.
IdentityRestored ==
    ~ outdated =>
        \A m \in Rebuilt(Len(log)) :
            /\ m.names = players.names /\ m.index = players.index
            /\ m.tokens = players.tokens /\ m.unlocked = players.unlocked
            /\ m.next = players.next
=============================================================================
