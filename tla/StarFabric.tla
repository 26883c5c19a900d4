----------------------------- MODULE StarFabric -----------------------------
(***************************************************************************)
(* The fabric between the stars of a machine (hyperspace/src/star.rs and   *)
(* driver/star.rs): how a transport goes from star to star, and how a star *)
(* looks for the others with it (wrangling).                               *)
(*                                                                         *)
(* A transport for a star that is not adjacent goes to the one adjacent    *)
(* forwarder there is.  No star knows a route; what ends a transport that  *)
(* goes in circles is its count of hops.                                   *)
(*                                                                         *)
(* A search goes to every adjacent star it has not been to.  A forwarder   *)
(* searches on before it answers, so that a search follows every path that *)
(* does not cross itself, and a star is found once for each: a discovery   *)
(* is named here by the path that made it.  The one who asked has given up *)
(* after 5 seconds and tries again; a search that nobody waits for any     *)
(* more goes on, and what it finds is added all the same.                  *)
(***************************************************************************)
EXTENDS Naturals, Sequences, FiniteSets, SequencesExt

CONSTANTS
    Nets,     \* machines: the kind of every star, the links between them, and the bounds of a
              \* run: the star that looks for the others, stars that never serve anything,
              \* searches it begins (code: until one succeeds), bounces anyone asks for
    MaxHops   \* hops a transport may take                              (code: 255)

ASSUME FabricAssumption ==
    /\ \A m \in Nets :
         /\ IsFiniteSet(DOMAIN m.kind)
         /\ \A s \in DOMAIN m.kind : m.kind[s] \in {"Central", "Nexus", "Machine", "Other"}
         /\ \A l \in m.links : l \subseteq DOMAIN m.kind /\ Cardinality(l) = 2
         /\ m.origin \in DOMAIN m.kind /\ m.deaf \subseteq DOMAIN m.kind \ {m.origin}
         /\ m.attempts \in Nat /\ m.bounces \in Nat
    /\ MaxHops \in Nat \ {0, 1}     \* enough for a way over one forwarder

VARIABLES
    net,        \* the machine
    alive,      \* stars whose call loop serves
    lanes,      \* transports on their way: the star they are at next, where they go, hops, load
    lost,       \* loads given up with an error in some star
    searches,   \* the open ripples: whose turn it is to answer, what was found
    attempt,    \* searches begun by the origin
    asking,     \* start_wrangling: waits for the last attempt, sleeps, or has stopped
    wrangles,   \* discoveries in the origin's StarWrangles, with the attempt that made them
    bounces,    \* bounces: from, to, and how they went
    shown       \* wrangle's status Ready

fabricVars == <<net, alive, lanes, lost, searches, attempt, asking, wrangles, bounces, shown>>

origin           == net.origin
Members          == DOMAIN net.kind      \* the stars
IsForwarder(s)   == net.kind[s] \notin {"Central", "Machine"}
CanBeWrangled(s) == net.kind[s] \notin {"Nexus", "Machine"}
Adjacents(s)     == {t \in Members : {s, t} \in net.links}
Forwarders(s)    == {t \in Adjacents(s) : IsForwarder(t)}

\* Loads.  A search, and the echo that answers it, carry the attempt and the path.
Search(n, path)      == [load |-> "search", no |-> n, path |-> path, found |-> {}]
Echo(n, path, found) == [load |-> "echo", no |-> n, path |-> path, found |-> found]
Ping(i)              == [load |-> "ping", no |-> i, path |-> <<>>, found |-> {}]
Pong(i)              == [load |-> "pong", no |-> i, path |-> <<>>, found |-> {}]
Loads                == {"search", "echo", "ping", "pong"}

Simple(path) == /\ \A i, j \in DOMAIN path : path[i] = path[j] => i = j
                /\ \A i \in 1 .. Len(path) - 1 : path[i + 1] \in Adjacents(path[i])

FabricTypeOK ==
    /\ net \in Nets
    /\ alive \subseteq Members
    /\ \A t \in lanes : t.at \in Members /\ t.to \in Members /\ t.hops \in 0 .. MaxHops
    /\ \A l \in lost \union {t.load : t \in lanes} :
         l.load \in Loads /\ Simple(l.path) /\ \A p \in l.found : Simple(p)
    /\ \A x \in DOMAIN searches :
         /\ x.no \in 1 .. net.attempts /\ Simple(x.path)
         /\ searches[x].left \subseteq Adjacents(Last(x.path)) /\ \A p \in searches[x].got : Simple(p)
    /\ attempt \in 0 .. net.attempts
    /\ asking \in {"sleeps", "waits", "stopped"}
    /\ \A w \in wrangles : w.no \in 1 .. attempt /\ Simple(w.path) /\ CanBeWrangled(Last(w.path))
    /\ bounces \in Seq([from : Members, to : Members, st : {"sent", "answered", "gave up"}])
    /\ Len(bounces) <= net.bounces
    /\ shown \in BOOLEAN

FabricInit ==
    /\ net \in Nets
    /\ alive = Members \ net.deaf
    /\ lanes = {} /\ lost = {}
    /\ searches = <<>>
    /\ attempt = 0 /\ asking = "sleeps"
    /\ wrangles = {}
    /\ bounces = <<>>
    /\ shown = FALSE

(***************************************************************************)
(* Transports.                                                             *)
(***************************************************************************)

\* Mutant: an adjacent star is reached over the forwarder too.
NextHop_Upwards(s, to) ==
    IF to = s THEN {to} ELSE IF Cardinality(Forwarders(s)) = 1 THEN Forwarders(s) ELSE {}

\* to_hyperway: the star itself, an adjacent star, or the only forwarder.
NextHop(s, to) ==
    IF to = s \/ to \in Adjacents(s) THEN {to}
    ELSE IF Cardinality(Forwarders(s)) = 1 THEN Forwarders(s)
    ELSE {}

\* With several forwarders the star's loop does not survive the call (unimplemented!).
Stumps(s, to) == to # s /\ to \notin Adjacents(s) /\ Cardinality(Forwarders(s)) > 1

\* The transports ts, of which none is for a star that is not adjacent to s if
\* there are several of them, leave s.
Leave(s, ts, rest) ==
    /\ lanes' = rest \union UNION {{[t EXCEPT !.at = h] : h \in NextHop(s, t.to)} : t \in ts}
    /\ lost' = lost \union {t.load : t \in {u \in ts : NextHop(s, u.to) = {}}}
    /\ alive' = IF \E t \in ts : Stumps(s, t.to) THEN alive \ {s} ELSE alive

Transport(to, load) == [at |-> to, to |-> to, hops |-> 0, load |-> load]

\* Mutant: the hops are not counted.
Forward_Uncounted(t) ==
    /\ t \in lanes /\ t.at \in alive /\ t.at # t.to
    /\ IF IsForwarder(t.at) THEN Leave(t.at, {t}, lanes \ {t})
       ELSE lanes' = lanes \ {t} /\ lost' = lost \union {t.load} /\ UNCHANGED alive
    /\ UNCHANGED <<net, searches, attempt, asking, wrangles, bounces, shown>>

\* from_hyperway of a transport for another star.
Forward(t) ==
    /\ t \in lanes /\ t.at \in alive /\ t.at # t.to
    /\ IF t.hops < MaxHops /\ IsForwarder(t.at)
       THEN Leave(t.at, {[t EXCEPT !.hops = @ + 1]}, lanes \ {t})
       ELSE /\ lanes' = lanes \ {t}
            /\ lost' = lost \union {t.load}
            /\ UNCHANGED alive
    /\ UNCHANGED <<net, searches, attempt, asking, wrangles, bounces, shown>>

\* from_hyperway of a transport for this star: what it carries is served.
Arrives(t, load) ==
    /\ t \in lanes /\ t.at \in alive /\ t.at = t.to /\ t.load.load = load
    /\ t.hops < MaxHops

TooLate(t) ==
    /\ t \in lanes /\ t.at \in alive /\ t.at = t.to /\ t.hops = MaxHops
    /\ lanes' = lanes \ {t}
    /\ lost' = lost \union {t.load}
    /\ UNCHANGED <<net, alive, searches, attempt, asking, wrangles, bounces, shown>>

(***************************************************************************)
(* Searches.                                                               *)
(***************************************************************************)
Id(n, path) == [no |-> n, path |-> path]

Rest(path)  == Adjacents(Last(path)) \ ToSet(path)          \* adjacents not in the history
Own(path)   == IF CanBeWrangled(Last(path)) THEN {path} ELSE {}
Asker(path) == path[Len(path) - 1]

\* A ripple that waits for the stars in left.
Opened(x, left) ==
    searches' = [y \in DOMAIN searches \union {x} |->
                    IF y \in DOMAIN searches THEN searches[y] ELSE [left |-> left, got |-> {}]]

\* Mutant: waits for every adjacent star, those it did not ask included.
Open_CountsAll(n, path, rest) ==
    /\ Opened(Id(n, path), Adjacents(Last(path)))
    /\ Leave(Last(path), {Transport(r, Search(n, Append(path, r))) : r \in Rest(path)}, rest)

\* Wrangler::wrangle: one ripple to each adjacent star the search was not at.
Open(n, path, rest) ==
    /\ Opened(Id(n, path), Rest(path))
    /\ Leave(Last(path), {Transport(r, Search(n, Append(path, r))) : r \in Rest(path)}, rest)

Answer(n, path, found, rest) ==
    Leave(Last(path), {Transport(Asker(path), Echo(n, path, found \union Own(path)))}, rest)

Waits(n) == asking = "waits" /\ attempt = n

\* The origin's search is over: what it found is added, whoever still waits hears it.
Finish(n, found) ==
    /\ wrangles' = wrangles \union {Id(n, p) : p \in found}
    /\ asking' = IF Waits(n) THEN "stopped" ELSE asking
    /\ shown' = TRUE

\* A round of start_wrangling's loop.
Attempt ==
    /\ asking = "sleeps" /\ attempt < net.attempts
    /\ attempt' = attempt + 1
    /\ IF Rest(<<origin>>) = {}
       THEN /\ asking' = "stopped" /\ shown' = TRUE
            /\ UNCHANGED <<alive, lanes, lost, searches>>
       ELSE /\ asking' = "waits"
            /\ Open(attempt + 1, <<origin>>, lanes)
            /\ UNCHANGED shown
    /\ UNCHANGED <<net, wrangles, bounces>>

\* handle_search_request: a forwarder asks the stars behind it first.
HandleSearch(t) ==
    /\ Arrives(t, "search")
    /\ LET n == t.load.no
           path == t.load.path
       IN IF IsForwarder(t.to) /\ Rest(path) # {}
          THEN Open(n, path, lanes \ {t})
          ELSE Answer(n, path, {}, lanes \ {t}) /\ UNCHANGED searches
    /\ UNCHANGED <<net, attempt, asking, wrangles, bounces, shown>>

Closed(x) == searches' = [y \in DOMAIN searches \ {x} |-> searches[y]]

\* The last echo, or the ripple's own timeout (which gives up what came before).
Close(x, found, rest) ==
    /\ Closed(x)
    /\ IF Len(x.path) = 1
       THEN Finish(x.no, found) /\ lanes' = rest /\ UNCHANGED <<alive, lost>>
       ELSE Answer(x.no, x.path, found, rest) /\ UNCHANGED <<wrangles, asking, shown>>
    /\ UNCHANGED <<net, attempt, bounces>>

HandleEcho(t) ==
    /\ Arrives(t, "echo")
    /\ LET x == Id(t.load.no, Front(t.load.path)) IN
       \/ /\ x \notin DOMAIN searches                          \* it came too late
          /\ lanes' = lanes \ {t}
          /\ UNCHANGED <<net, alive, lost, searches, attempt, asking, wrangles, bounces, shown>>
       \/ /\ x \in DOMAIN searches
          /\ LET left == searches[x].left \ {Last(t.load.path)}
                 got  == searches[x].got \union t.load.found
             IN IF left = {} THEN Close(x, got, lanes \ {t})
                ELSE /\ searches' = [searches EXCEPT ![x] = [left |-> left, got |-> got]]
                     /\ lanes' = lanes \ {t}
                     /\ UNCHANGED <<net, alive, lost, attempt, asking, wrangles, bounces, shown>>

\* Mutant: the timeout of a ripple is no longer than that of the one who asked.
RippleTimeout_Short(x) == x \in DOMAIN searches /\ Last(x.path) \in alive /\ Close(x, {}, lanes)

\* A ripple waits 300 seconds, the one who asked for the search 5, and a ripple
\* began after the one it serves: it ends when nobody waits for it any more.
RippleTimeout(x) ==
    /\ x \in DOMAIN searches /\ Last(x.path) \in alive
    /\ IF Len(x.path) = 1 THEN ~Waits(x.no) ELSE Id(x.no, Front(x.path)) \notin DOMAIN searches
    /\ Close(x, {}, lanes)

\* HyperStarApi::wrangle gives up; the loop sleeps and tries again.
GiveUp ==
    /\ asking = "waits"
    /\ asking' = "sleeps"
    /\ UNCHANGED <<net, alive, lanes, lost, searches, attempt, wrangles, bounces, shown>>

(***************************************************************************)
(* Bounces: any signal from one star to another.                           *)
(***************************************************************************)
Bounce(s, to) ==
    /\ s \in alive /\ s # to /\ Len(bounces) < net.bounces
    /\ bounces' = Append(bounces, [from |-> s, to |-> to, st |-> "sent"])
    /\ Leave(s, {Transport(to, Ping(Len(bounces) + 1))}, lanes)
    /\ UNCHANGED <<net, searches, attempt, asking, wrangles, shown>>

HandlePing(t) ==
    /\ Arrives(t, "ping")
    /\ Leave(t.to, {Transport(bounces[t.load.no].from, Pong(t.load.no))}, lanes \ {t})
    /\ UNCHANGED <<net, searches, attempt, asking, wrangles, bounces, shown>>

Ends(i, st) == bounces' = IF bounces[i].st = "sent" THEN [bounces EXCEPT ![i].st = st] ELSE bounces

HandlePong(t) ==
    /\ Arrives(t, "pong")
    /\ Ends(t.load.no, "answered")
    /\ lanes' = lanes \ {t}
    /\ UNCHANGED <<net, alive, lost, searches, attempt, asking, wrangles, shown>>

BounceTimeout(i) ==
    /\ bounces[i].st = "sent" /\ Ends(i, "gave up")
    /\ UNCHANGED <<net, alive, lanes, lost, searches, attempt, asking, wrangles, shown>>

Serve == \E t \in lanes : \/ Forward(t) \/ TooLate(t) \/ HandleSearch(t) \/ HandleEcho(t)
                          \/ HandlePing(t) \/ HandlePong(t)

FabricNext ==
    \/ Serve \/ Attempt \/ GiveUp
    \/ \E x \in DOMAIN searches : RippleTimeout(x)
    \/ \E s, to \in Members : Bounce(s, to)
    \/ \E i \in DOMAIN bounces : BounceTimeout(i)

FabricSpec == FabricInit /\ [][FabricNext]_fabricVars

\* A star that has something to serve serves it; the loop of start_wrangling goes on.
FabricFairSpec == FabricSpec /\ WF_fabricVars(Serve) /\ WF_fabricVars(Attempt)

(***************************************************************************)
(* Properties.                                                             *)
(***************************************************************************)

\* The stars a star can reach over forwarders, in rounds: the reference for what
\* the searches find path by path.
Within[n \in Nat] ==
    IF n = 0 THEN {origin}
    ELSE Within[n - 1] \union
         UNION {Adjacents(s) : s \in {t \in Within[n - 1] : t = origin \/ IsForwarder(t)}}

Reachable == {s \in Within[Cardinality(Members)] \ {origin} : CanBeWrangled(s)}

\* start_wrangling stops only when every star there is to find was found, however
\* many attempts were given up before and whatever is still on its way (star.rs
\* start_wrangling and wrangle, driver/star.rs handle_search_request).
StoppedHasFoundAll == asking = "stopped" => {Last(w.path) : w \in wrangles} = Reachable

\* Where every star that is not adjacent to another has one forwarder that is
\* adjacent to it, as in the template of a machine, no transport is lost and no
\* star stops (star.rs to_hyperway, machine.rs MachineTemplate).
Hub == \E h \in Members : \A s, t \in Members :
           t \notin Adjacents(s) \union {s} => Forwarders(s) = {h} /\ t \in Adjacents(h)

HubLosesNothing == Hub => lost = {} /\ alive = Members \ net.deaf

\* No transport goes round for ever: the lanes come to rest (star.rs from_hyperway,
\* the 255 hops).
LanesComeToRest == <>[][FALSE]_lanes

\* When nobody is deaf and nobody gives up, the first attempt succeeds: no star of
\* a search waits for one that waits for it.
SearchEnds == [](alive = Members /\ (asking = "sleeps" => attempt = 0)) => <>(asking = "stopped")
=============================================================================
