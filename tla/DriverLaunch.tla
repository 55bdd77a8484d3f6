---------------------------- MODULE DriverLaunch ----------------------------
(***************************************************************************)
(* How driver_factory.new_driver starts one browser: profile directories,  *)
(* the proxy and its extension, what older launches left behind, and what  *)
(* its callers close.  The threads of a process launch one at a time       *)
(* (driver_init_lock); processes on one machine know nothing of each other *)
(* and may be given the same profile directory.                            *)
(***************************************************************************)
EXTENDS Naturals

CONSTANTS
  Launcher,      \* calls of new_driver, with the browser each is to get
  Profile,       \* directories that BROWSER_USER_DATA_DIR may name
  Extends,       \* pairs: the first one's path is a prefix of the second one's
  LaunchRequest  \* what may be asked for

VARIABLES
  request,   \* the arguments and environment of each call
  launch     \* how far it got, and its browser

launchVars == <<request, launch>>

(* "auth": a proxy with credentials; "odd": one that cannot be parsed.     *)
Request ==
  [process : STRING, debugger : BOOLEAN, native : BOOLEAN, anonymous : BOOLEAN,
   proxy : {"none", "plain", "auth", "odd"}, profile : Profile \union {"none"},
   clean : BOOLEAN]

(* A profile that is named is no directory made here, and only a path that *)
(* is named comes before others.                                           *)
ASSUME LaunchAssumption ==
  /\ LaunchRequest \subseteq Request
  /\ Profile \cap {"none", "temporary"} = {}
  /\ Extends \subseteq Profile \X (Profile \union {"temporary"})

(* dirs are the temporary directories made: "root" for a profile and what  *)
(* goes with it, "extension" for an extension without a root; returned is  *)
(* the one whose path the caller is given, and removes.                    *)
NewLaunch ==
  [pc |-> "idle", profile |-> "none", primed |-> FALSE, incognito |-> FALSE,
   route |-> "direct", dirs |-> {}, returned |-> "none", alive |-> FALSE]

LaunchRecord ==
  [pc : {"idle", "native", "private", "route", "clean", "start", "stealth",
         "open", "closed", "failed"},
   profile : Profile \union {"none", "temporary"}, primed : BOOLEAN,
   incognito : BOOLEAN, route : {"direct", "proxy"},
   dirs : SUBSET {"root", "extension"}, returned : {"none", "root", "extension"},
   alive : BOOLEAN]

LaunchInit ==
  /\ request \in [Launcher -> LaunchRequest]
  /\ launch = [c \in Launcher |-> NewLaunch]

LaunchAt(c, pc) == launch[c].pc = pc

Launching(c) == launch[c].pc \in {"native", "private", "route", "clean", "start", "stealth"}

(* The callers hold driver_init_lock around new_driver.                    *)
MayLaunch(c) ==
  /\ LaunchAt(c, "idle")
  /\ \A d \in Launcher : Launching(d) => request[d].process # request[c].process

MoveLaunch(c, pc) == launch' = [launch EXCEPT ![c].pc = pc] /\ UNCHANGED request

(* An exception leaves through the caller, who was given no path.          *)
NewDriverRaises(c) == Launching(c) /\ MoveLaunch(c, "failed")

(* A debugger address: the browser is one that runs already, its profile   *)
(* and its proxy are what they were.                                       *)
Attach(c) ==
  /\ MayLaunch(c) /\ request[c].debugger
  /\ launch' = [launch EXCEPT ![c].pc = "stealth", ![c].alive = TRUE]
  /\ UNCHANGED request

BeginLaunch(c) ==
  /\ MayLaunch(c) /\ ~request[c].debugger
  /\ launch' = [launch EXCEPT ![c].pc = IF request[c].native THEN "native" ELSE "private",
                              ![c].profile = request[c].profile]
  /\ UNCHANGED request

(* Mutant: a driver is taken for a stale one whatever its profile.         *)
StaleAnyone(c, profile) ==
  { d \in Launcher \ {c} : request[c].clean /\ launch[d].alive }

(* The processes _cleanup_stale_browser_startup_state kills: the command   *)
(* line shows a profile whose path begins with this one.                   *)
Stale(c, profile) ==
  { d \in Launcher \ {c} :
      request[c].clean /\ launch[d].alive /\ <<profile, launch[d].profile>> \in Extends }

Killed(c, profile) ==
  [d \in Launcher |->
     [launch[d] EXCEPT !.alive = @ /\ d \notin Stale(c, profile)]]

(* The camoufox backend without a directory gets one of its own, the       *)
(* isolation being on as it is by default; priming runs a browser on the   *)
(* profile for a while, and may fail.                                      *)
PrepareNative(c) ==
  /\ LaunchAt(c, "native")
  /\ \E primed \in BOOLEAN :
       launch' = [Killed(c, launch[c].profile) EXCEPT
                    ![c].pc = "private", ![c].primed = primed,
                    ![c].profile = IF @ = "none" THEN "temporary" ELSE @,
                    ![c].dirs = IF launch[c].profile = "none" THEN {"root"} ELSE {}]
  /\ UNCHANGED request

NeedsPrivate(c) == request[c].anonymous /\ request[c].proxy \in {"auth", "odd"}

(* Mutant: a directory that was named is kept.                             *)
PreparePrivateUnlessNamed(c) ==
  /\ LaunchAt(c, "private")
  /\ launch' = [launch EXCEPT
       ![c].pc = "route",
       ![c].incognito = request[c].anonymous /\ ~NeedsPrivate(c),
       ![c].profile = IF NeedsPrivate(c) /\ @ = "none" THEN "temporary" ELSE @,
       ![c].dirs = IF NeedsPrivate(c) /\ launch[c].profile = "none" THEN {"root"} ELSE @]
  /\ UNCHANGED request

(* Extensions do not run in incognito windows, and a proxy with credentials *)
(* needs one: such a session gets a directory that goes with it instead.   *)
PreparePrivate(c) ==
  /\ LaunchAt(c, "private")
  /\ launch' = [launch EXCEPT
       ![c].pc = "route",
       ![c].incognito = request[c].anonymous /\ ~NeedsPrivate(c),
       ![c].profile = IF NeedsPrivate(c) THEN "temporary" ELSE @,
       ![c].dirs = IF NeedsPrivate(c) THEN {"root"} ELSE @]
  /\ UNCHANGED request

(* Mutant: only the extension sets the proxy.                              *)
ServerSwitchLeft(c) == request[c].proxy = "plain"

(* --proxy-server is given in any case.                                    *)
ServerSwitch(c) == request[c].proxy \in {"plain", "auth"}

(* Mutant: the extension always gets a directory of its own.               *)
ExtensionDirAnew(c) == IF request[c].proxy = "auth" THEN {"extension"} ELSE {}

(* create_proxy_extension: inside the root, if there is one.               *)
ExtensionDir(c) ==
  IF request[c].proxy = "auth" /\ "root" \notin launch[c].dirs THEN {"extension"} ELSE {}

(* Chrome may refuse to load the extension without saying so.  Without a   *)
(* proxy of its own a browser uses that of the environment, if any.        *)
RouteProxy(c) ==
  /\ LaunchAt(c, "route") /\ request[c].proxy # "odd"
  /\ \E loads \in BOOLEAN :
       launch' = [launch EXCEPT
         ![c].pc = "clean",
         ![c].dirs = @ \union ExtensionDir(c),
         ![c].route = IF ServerSwitch(c) \/ (request[c].proxy = "auth" /\ loads)
                      THEN "proxy" ELSE "direct"]
  /\ UNCHANGED request

(* Once more, unless the profile was primed just now.                      *)
CleanProfile(c) ==
  /\ LaunchAt(c, "clean")
  /\ launch' = [IF launch[c].primed THEN launch ELSE Killed(c, launch[c].profile)
                  EXCEPT ![c].pc = "start"]
  /\ UNCHANGED request

Occupied(c) ==
  \E d \in Launcher \ {c} :
    launch[d].alive /\ launch[d].profile = launch[c].profile /\ launch[c].profile \in Profile

(* undetected_chromedriver, then selenium's.  Chrome refuses a profile in  *)
(* use; a start may fail for any other reason as well.                     *)
StartBrowser(c) ==
  /\ LaunchAt(c, "start") /\ ~Occupied(c)
  /\ launch' = [launch EXCEPT ![c].pc = "stealth", ![c].alive = TRUE]
  /\ UNCHANGED request

(* Mutant: the profile is returned for the root it is in.                  *)
ReturnedProfile(c) ==
  CASE "root" \in launch[c].dirs -> launch[c].profile
    [] launch[c].dirs = {"extension"} -> "extension"
    [] OTHER -> "none"

(* cleanup_root or proxy_dir.                                              *)
Returned(c) ==
  CASE "root" \in launch[c].dirs -> "root"
    [] launch[c].dirs = {"extension"} -> "extension"
    [] OTHER -> "none"

FinishLaunch(c) ==
  /\ LaunchAt(c, "stealth")
  /\ launch' = [launch EXCEPT ![c].pc = "open", ![c].returned = Returned(c)]
  /\ UNCHANGED request

(* The caller quits the driver and removes the path it was given.          *)
QuitBrowser(c) ==
  /\ LaunchAt(c, "open")
  /\ launch' = [launch EXCEPT ![c].pc = "closed", ![c].alive = FALSE,
                              ![c].dirs = @ \ {launch[c].returned}]
  /\ UNCHANGED request

LaunchNext ==
  \E c \in Launcher :
    \/ Attach(c) \/ BeginLaunch(c) \/ PrepareNative(c) \/ PreparePrivate(c)
    \/ RouteProxy(c) \/ CleanProfile(c) \/ StartBrowser(c) \/ FinishLaunch(c)
    \/ NewDriverRaises(c) \/ QuitBrowser(c)

LaunchSpec == LaunchInit /\ [][LaunchNext]_launchVars

-----------------------------------------------------------------------------
(* Properties. *)

(* Type correctness of the launches.                                       *)
LaunchTypeOK ==
  /\ request \in [Launcher -> Request]
  /\ launch \in [Launcher -> LaunchRecord]

OpenedHere(c) == LaunchAt(c, "open") /\ ~request[c].debugger

(* A browser that is to use a proxy never goes without, whether or not its *)
(* extension is loaded (driver_factory.py:831-833, and                     *)
(* tests/test_chromium_proxy_fail_closed.py:178-183).                      *)
ProxyIsKept ==
  \A c \in Launcher : OpenedHere(c) /\ request[c].proxy # "none" => launch[c].route = "proxy"

(* Anonymous sessions leave nothing behind, by an incognito window or by a *)
(* directory that goes with them; and one whose proxy needs the extension  *)
(* is not incognito, where it would not run (driver_factory.py:724-732).   *)
AnonymousStays ==
  \A c \in Launcher : OpenedHere(c) /\ request[c].anonymous =>
    IF request[c].proxy = "auth"
    THEN ~launch[c].incognito /\ launch[c].profile = "temporary" /\ launch[c].returned = "root"
    ELSE launch[c].incognito

(* Once the browser of a launch that returned is closed, no directory made *)
(* for it is left, though the caller hears of one path only.  A launch     *)
(* that raises has no caller to clean up after it (driver_factory.py:984). *)
NothingIsLeft ==
  \A c \in Launcher : LaunchAt(c, "closed") => launch[c].dirs = {}

(* Cleaning up spares every browser but those in the same directory, or in *)
(* one whose path goes on from its own: no launch that named neither ends  *)
(* an open one (driver_factory.py:129-152,                                 *)
(* tests/test_browser_profile_cleanup.py:10-27).                           *)
UnsharedStayAlive ==
  \A c \in Launcher :
    LaunchAt(c, "open") /\ ~launch[c].alive =>
      \E d \in Launcher \ {c} : <<request[d].profile, launch[c].profile>> \in Extends

(* A launch gets its own profile and proxy, leaves no directory behind if  *)
(* it returned and its browser was closed, and ends no browser but those   *)
(* on its path (driver_factory.py:110-165, 655-1030).                      *)
LaunchInv ==
  LaunchTypeOK /\ ProxyIsKept /\ AnonymousStays /\ NothingIsLeft /\ UnsharedStayAlive

=============================================================================
