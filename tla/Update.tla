------------------------------- MODULE Update -------------------------------
(***************************************************************************)
(* How a device comes to run a build: app/sw.js, the update button and the *)
(* healing of mixed builds in app/app.js, and the part of build.sh that    *)
(* names every script by its build.                                        *)
(*                                                                         *)
(* Builds are numbered in the order they are deployed.  A page is made of  *)
(* two fetches: "page" (index.html and the app.js it names) and "core"     *)
(* (the glue and the module, asked for under the build of that app.js).    *)
(* The origin answers a versioned name with whatever it serves at the      *)
(* time; a deployment may reach the core late.                             *)
(*                                                                         *)
(* The registration's slots, the moment a waiting worker may activate and  *)
(* what unregistering leaves are the browser's; so are private tabs, whose *)
(* session storage is denied.                                              *)
(***************************************************************************)
EXTENDS Naturals

CONSTANTS
  Tab,        \* the windows that may be open on the device
  Private,    \* those that are denied session storage
  Builds      \* bound: the last build deployed

ASSUME UpdateAssumption == Builds \in Nat \ {0} /\ Private \subseteq Tab

VARIABLES
  origin,     \* the build whose worker and page the origin serves
  lag,        \* it still serves the previous build's core
  installing, waiting, active,   \* the slots of the registration, 0 if empty
  skip,       \* the builds told to skip waiting
  cache,      \* what each worker has precached
  checking,   \* a fetch of sw.js has been asked for
  watch,      \* the pages that listen to the worker being installed
  phase,      \* where each window is
  page, core, \* the builds of what it runs
  control,    \* the build of the worker that controls it, 0 if none
  reg,        \* it holds the registration that is in force
  offered,    \* its update panel is shown
  asked,      \* the build it waits to be handed over to, 0 if none
  due,        \* the build its last handover was asked for
  healed,     \* its session storage holds HEALED
  calm        \* the world has settled: see Calm

originvars == <<origin, lag>>
workervars == <<installing, waiting, active, skip, cache, checking, watch>>
pagevars == <<page, core, reg, offered, asked, due, healed>>
vars == <<originvars, workervars, phase, control, pagevars, calm>>

Build == 1..Builds
NoCache == [page |-> 0, core |-> 0]
Phase == {"closed", "reloading", "fetching", "fetched", "dropping", "running", "mixed"}

TypeOK ==
  /\ origin \in Build /\ lag \in BOOLEAN
  /\ installing \in 0..Builds /\ waiting \in 0..Builds /\ active \in 0..Builds
  /\ skip \subseteq Build
  /\ cache \in [Build -> [page : 0..Builds, core : 0..Builds]]
  /\ checking \in BOOLEAN
  /\ watch \subseteq Tab /\ \A t \in watch : phase[t] = "running"
  /\ phase \in [Tab -> Phase]
  /\ page \in [Tab -> 0..Builds] /\ core \in [Tab -> 0..Builds]
  /\ control \in [Tab -> 0..Builds]
  /\ asked \in [Tab -> 0..Builds] /\ due \in [Tab -> 0..Builds]
  /\ reg \in [Tab -> BOOLEAN] /\ offered \in [Tab -> BOOLEAN] /\ healed \in [Tab -> BOOLEAN]
  /\ calm \in BOOLEAN

Init ==
  /\ origin = 1 /\ lag = FALSE
  /\ installing = 0 /\ waiting = 0 /\ active = 0
  /\ skip = {}
  /\ cache = [b \in Build |-> NoCache]
  /\ checking = FALSE
  /\ watch = {}
  /\ phase = [t \in Tab |-> "closed"]
  /\ page = [t \in Tab |-> 0] /\ core = [t \in Tab |-> 0]
  /\ control = [t \in Tab |-> 0]
  /\ reg = [t \in Tab |-> FALSE]
  /\ offered = [t \in Tab |-> FALSE]
  /\ asked = [t \in Tab |-> 0] /\ due = [t \in Tab |-> 0]
  /\ healed = [t \in Tab |-> FALSE]
  /\ calm = FALSE

Open == {t \in Tab : phase[t] # "closed"}

-----------------------------------------------------------------------------
(* The origin *)

OriginCore == IF lag THEN origin - 1 ELSE origin

(* A new build is deployed; its core may arrive later than its page. *)
Deploy ==
  /\ origin < Builds
  /\ ~lag
  /\ origin' = origin + 1
  /\ lag' \in BOOLEAN
  /\ UNCHANGED <<workervars, phase, control, pagevars, calm>>

CoreArrives ==
  /\ lag
  /\ lag' = FALSE
  /\ UNCHANGED <<origin, workervars, phase, control, pagevars, calm>>

-----------------------------------------------------------------------------
(* Fetches: cache first, the network for what is missing *)

(* The page under './': the cached one is used if the app.js it names is the *)
(* one cached beside it, otherwise that app.js comes from the origin.        *)
PageServed(w) ==
  IF w # 0 /\ cache[w].page = w THEN w ELSE origin

(* The core under the name of build v. *)
CoreServed(w, v) ==
  IF w = v /\ cache[w] # NoCache THEN cache[w].core ELSE OriginCore

-----------------------------------------------------------------------------
(* The worker *)

Newest == IF waiting # 0 THEN waiting ELSE active

(* sw.js is fetched; one that differs from the newest worker is installed, and *)
(* `updatefound` reaches the pages that listen and are controlled.             *)
FetchWorker ==
  /\ checking
  /\ installing = 0
  /\ checking' = FALSE
  /\ IF origin = Newest
       THEN UNCHANGED <<installing, watch>>
       ELSE /\ installing' = origin
            /\ watch' = {t \in Open : phase[t] = "running" /\ reg[t] /\ control[t] # 0}
  /\ UNCHANGED <<originvars, waiting, active, skip, cache, phase, control, pagevars, calm>>

(* The check fails: offline, or the origin is unreachable. *)
CheckFails ==
  /\ ~calm
  /\ checking
  /\ checking' = FALSE
  /\ UNCHANGED <<originvars, installing, waiting, active, skip, cache, watch,
                 phase, control, pagevars, calm>>

(* A worker becomes the active one: it deletes the other caches and claims  *)
(* every page, and `controllerchange` reloads the pages that asked for it.  *)
TakeOver(b, stored) ==
  LET handed == {t \in Open : asked[t] # 0}
  IN /\ active' = b
     /\ waiting' = 0
     /\ cache' = [c \in Build |-> IF c = b THEN stored[c] ELSE NoCache]
     /\ control' = [t \in Tab |-> IF t \in Open THEN b ELSE 0]
     /\ phase' = [t \in Tab |-> IF t \in handed THEN "reloading" ELSE phase[t]]
     /\ due' = [t \in Tab |-> IF t \in handed THEN asked[t] ELSE due[t]]
     /\ asked' = [t \in Tab |-> 0]
     /\ watch' = {}

(* The precache is whole: every file as the origin served it at some moment   *)
(* since sw.js was fetched.  A first worker activates, a later one is parked  *)
(* and offered.                                                               *)
InstallDone ==
  /\ installing # 0
  /\ \E p \in installing..origin, c \in installing..origin \cup {OriginCore} :
       LET stored == [cache EXCEPT ![installing] = [page |-> p, core |-> c]]
       IN IF active = 0
            THEN /\ TakeOver(installing, stored)
                 /\ UNCHANGED offered
            ELSE /\ waiting' = installing
                 /\ cache' = stored
                 /\ offered' = [t \in Tab |-> offered[t] \/ t \in watch]
                 /\ watch' = {}
                 /\ UNCHANGED <<active, control, phase, due, asked>>
  /\ installing' = 0
  /\ UNCHANGED <<originvars, skip, checking, page, core, reg, healed, calm>>

(* addAll rejects: no worker, nothing cached. *)
InstallFails ==
  /\ ~calm
  /\ installing # 0
  /\ installing' = 0
  /\ watch' = {}
  /\ UNCHANGED <<originvars, waiting, active, skip, cache, checking, phase, control,
                 pagevars, calm>>

(* Mutant of MayActivate: install calls skipWaiting(). *)
MayActivateAtOnce == TRUE

(* install never calls skipWaiting(), so a parked build waits for a message or *)
(* for the browser to find that no page is controlled any more.                *)
MayActivate == waiting \in skip \/ \A t \in Open : control[t] = 0

Activate ==
  /\ waiting # 0
  /\ MayActivate
  /\ TakeOver(waiting, cache)
  /\ UNCHANGED <<originvars, installing, skip, checking, page, core, reg, offered, healed, calm>>

-----------------------------------------------------------------------------
(* A page *)

(* What a window forgets when its document goes. *)
Forget(t) ==
  /\ reg' = [reg EXCEPT ![t] = FALSE]
  /\ offered' = [offered EXCEPT ![t] = FALSE]
  /\ asked' = [asked EXCEPT ![t] = 0]
  /\ watch' = watch \ {t}

OpenTab(t) ==
  /\ phase[t] = "closed"
  /\ phase' = [phase EXCEPT ![t] = "reloading"]
  /\ UNCHANGED <<originvars, workervars, control, pagevars, calm>>

(* Closing a window ends its session. *)
CloseTab(t) ==
  /\ t \in Open
  /\ calm => phase[t] = "mixed" \/ (phase[t] = "running" /\ ~offered[t])
  /\ phase' = [phase EXCEPT ![t] = "closed"]
  /\ control' = [control EXCEPT ![t] = 0]
  /\ page' = [page EXCEPT ![t] = 0]
  /\ core' = [core EXCEPT ![t] = 0]
  /\ due' = [due EXCEPT ![t] = 0]
  /\ healed' = [healed EXCEPT ![t] = FALSE]
  /\ Forget(t)
  /\ UNCHANGED <<originvars, installing, waiting, active, skip, cache, checking, calm>>

(* The person reloads. *)
Reload(t) ==
  /\ ~calm
  /\ phase[t] \in {"running", "mixed"}
  /\ phase' = [phase EXCEPT ![t] = "reloading"]
  /\ due' = [due EXCEPT ![t] = 0]
  /\ Forget(t)
  /\ UNCHANGED <<originvars, installing, waiting, active, skip, cache, checking,
                 control, page, core, healed, calm>>

(* The document is fetched; the browser may check for an update by itself. *)
Navigate(t) ==
  /\ phase[t] = "reloading"
  /\ phase' = [phase EXCEPT ![t] = "fetching"]
  /\ control' = [control EXCEPT ![t] = active]
  /\ page' = [page EXCEPT ![t] = PageServed(active)]
  /\ core' = [core EXCEPT ![t] = 0]
  /\ Forget(t)
  /\ checking' \in {checking, checking \/ active # 0}
  /\ UNCHANGED <<originvars, installing, waiting, active, skip, cache, due, healed, calm>>

FetchCore(t) ==
  /\ phase[t] = "fetching"
  /\ core' = [core EXCEPT ![t] = CoreServed(control[t], page[t])]
  /\ phase' = [phase EXCEPT ![t] = "fetched"]
  /\ UNCHANGED <<originvars, workervars, control, page, reg, offered, asked, due, healed, calm>>

BuildsAgree(t) == page[t] = core[t]

(* main(), if the builds agree: registers and offers what is parked. *)
Register(t) ==
  /\ phase[t] = "fetched"
  /\ BuildsAgree(t)
  /\ phase' = [phase EXCEPT ![t] = "running"]
  /\ reg' = [reg EXCEPT ![t] = TRUE]
  /\ offered' = [offered EXCEPT ![t] = waiting # 0]
  /\ UNCHANGED <<originvars, installing, waiting, active, skip, cache, watch,
                 control, page, core, asked, due, healed, calm>>

(* Mutant of Start: the page waits to be told of a new build. *)
StartUnasking(t) == Register(t) /\ checking' = (checking \/ active = 0)

(* ... and asks, once per load, whether there is something new. *)
Start(t) == Register(t) /\ checking' = TRUE

(* Mutant of Marked: the attempt is not remembered. *)
NeverMarked(t) == FALSE

Marked(t) == t \notin Private

(* healSkew(): the attempt is marked, where storage allows, and the caches go. *)
HealSkew(t) ==
  /\ phase[t] = "fetched"
  /\ ~BuildsAgree(t)
  /\ ~healed[t]
  /\ healed' = [healed EXCEPT ![t] = Marked(t)]
  /\ cache' = [b \in Build |-> NoCache]
  /\ phase' = [phase EXCEPT ![t] = "dropping"]
  /\ UNCHANGED <<originvars, installing, waiting, active, skip, checking, watch,
                 control, page, core, reg, offered, asked, due, calm>>

(* ... then the registration, with what it was still installing, and the page *)
(* reloads.  The other pages keep their worker but hold a registration that   *)
(* is no longer in force.                                                     *)
Unregister(t) ==
  /\ phase[t] = "dropping"
  /\ installing' = 0 /\ waiting' = 0 /\ active' = 0
  /\ skip' = {}
  /\ watch' = {}
  /\ reg' = [x \in Tab |-> FALSE]
  /\ phase' = [phase EXCEPT ![t] = "reloading"]
  /\ UNCHANGED <<originvars, cache, checking, control, page, core,
                 offered, asked, due, healed, calm>>

(* The second attempt is still mixed: the page says so and stops. *)
GiveUp(t) ==
  /\ phase[t] = "fetched"
  /\ ~BuildsAgree(t)
  /\ healed[t]
  /\ phase' = [phase EXCEPT ![t] = "mixed"]
  /\ UNCHANGED <<originvars, workervars, control, pagevars, calm>>

(* Mutant of UpdateNow: the page reloads at once after it has asked. *)
UpdateNowReloads(t) ==
  /\ phase[t] = "running"
  /\ offered[t] /\ reg[t] /\ waiting # 0
  /\ skip' = skip \cup {waiting}
  /\ due' = [due EXCEPT ![t] = waiting]
  /\ phase' = [phase EXCEPT ![t] = "reloading"]
  /\ watch' = watch \ {t}
  /\ UNCHANGED <<originvars, installing, waiting, active, cache, checking,
                 control, page, core, reg, offered, asked, healed, calm>>

(* The update button: subscribes to the handover, then asks the parked worker *)
(* to take over; with nothing parked the panel goes away.                     *)
UpdateNow(t) ==
  /\ phase[t] = "running"
  /\ offered[t]
  /\ IF reg[t] /\ waiting # 0
       THEN /\ asked' = [asked EXCEPT ![t] = waiting]
            /\ skip' = skip \cup {waiting}
            /\ UNCHANGED offered
       ELSE /\ offered' = [offered EXCEPT ![t] = FALSE]
            /\ UNCHANGED <<asked, skip>>
  /\ UNCHANGED <<originvars, installing, waiting, active, cache, checking, watch,
                 phase, control, page, core, reg, due, healed, calm>>
-----------------------------------------------------------------------------

Visit(t) ==
  \/ OpenTab(t) \/ CloseTab(t) \/ Reload(t)
  \/ Navigate(t) \/ FetchCore(t) \/ Start(t)
  \/ HealSkew(t) \/ Unregister(t) \/ GiveUp(t)
  \/ UpdateNow(t)

(* From some moment on the network holds, and the person lets a page load and *)
(* takes the update it offers before putting it away.                         *)
Calm ==
  /\ ~calm
  /\ calm' = TRUE
  /\ UNCHANGED <<originvars, workervars, phase, control, pagevars>>

Next ==
  \/ Deploy \/ CoreArrives \/ Calm
  \/ FetchWorker \/ CheckFails \/ InstallDone \/ InstallFails \/ Activate
  \/ \E t \in Tab : Visit(t)

Spec == Init /\ [][Next]_vars

(* A load goes on; the browser finishes what it has begun. *)
Load(t) ==
  \/ Navigate(t) \/ FetchCore(t) \/ Start(t)
  \/ HealSkew(t) \/ Unregister(t) \/ GiveUp(t)

(* The person opens the app again and again, and takes what is offered. *)
Fairness ==
  /\ WF_vars(Calm)
  /\ WF_vars(FetchWorker) /\ WF_vars(InstallDone) /\ WF_vars(Activate)
  /\ \A t \in Tab :
       /\ WF_vars(Load(t))
       /\ WF_vars(OpenTab(t) \/ CloseTab(t))
       /\ WF_vars(UpdateNow(t))

FairSpec == Spec /\ Fairness

-----------------------------------------------------------------------------
(* Properties *)

(* A page that the update button reloaded runs the build that was parked when *)
(* it was tapped, or a later one (app.js, the handler of update-now): never   *)
(* the old one, out of the old worker's cache.                                *)
TapLandsOnNew == \A t \in Tab : phase[t] = "running" => page[t] >= due[t]

(* While pages are open, none of them finds itself under another build unless *)
(* a person has asked that build to take over (sw.js has no other             *)
(* skipWaiting()).  Excepted is what another page's healing brings about: it  *)
(* drops the registration, and the first install after it claims every page.  *)
OpenPagesDecide ==
  [][\A t \in Tab :
       (/\ phase[t] = "running" /\ phase'[t] \in {"running", "reloading"}
        /\ active # 0 /\ reg[t] /\ control[t] # 0 /\ control'[t] # control[t])
       => control'[t] \in skip]_vars

(* Every load ends in a running app or in a message, whatever the origin      *)
(* serves and however often healSkew() is entered: there is no reload loop.   *)
LoadEnds ==
  \A t \in Tab \ Private :
    phase[t] = "fetched" ~> phase[t] \in {"closed", "running", "mixed"}

(* No device is stranded on an old build: once the last build is served       *)
(* whole, some page comes to run it.                                          *)
NoDeviceStranded ==
  (origin = Builds /\ ~lag) ~> \E t \in Tab : phase[t] = "running" /\ page[t] = Builds
=============================================================================
