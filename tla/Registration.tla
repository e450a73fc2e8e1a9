---------------------------- MODULE Registration ----------------------------
(***************************************************************************)
(* jamNationStuff of the box: once a second it looks at the network link,  *)
(* every tenth time it registers with the nation server or pings it, and   *)
(* it shows with the status light how that went.  The link and the nation  *)
(* come and go; a nation that restarts knows no token any more, and what   *)
(* answers 200 need not be the nation: an answer that is no JSON leaves    *)
(* the body of an earlier one in m_resultBody, and the token in it, if     *)
(* there is one, is taken (without one the process ends: BoxUnit!Dies).    *)
(* The light is in shared memory; rtjam-status, which drives it, makes it  *)
(* green when it starts.                                                   *)
(***************************************************************************)
EXTENDS Integers

CONSTANTS
  Tokens,    \* tokens the nation may issue
  Nothing,   \* the empty token
  Period     \* 10: every so many rounds the nation is asked

ASSUME RegistrationAssumption == Nothing \notin Tokens /\ Period \in Nat \ {0}

VARIABLES
  link,      \* the interface: down, noaddress (an ioctl fails), up
  up,        \* the nation is serving
  known,     \* tokens the nation knows
  step,      \* where the loop is: sleep, register, ping
  token,     \* token, and BoxAPI::s_token
  body,      \* the token in m_resultBody["jamUnit"]
  loop,      \* loopCount % 10
  linkSeen,  \* what checkLinkStatus said last
  light,     \* lightData.m_pLightSettings->status
  stray      \* history: the light is the one rtjam-status has set

nationVars == <<link, up, known>>
loopVars == <<step, token, body, loop, linkSeen, light, stray>>
registrationVars == <<nationVars, loopVars>>

(* checkLinkStatus: where an ioctl fails, as there is no address yet,      *)
(* ERROR returns -1, which is true.                                        *)
checkLinkStatus == link # "down"
Reachable == link = "up" /\ up

SetLight(color) == light' = color /\ stray' = FALSE
LightStays == UNCHANGED <<light, stray>>

-----------------------------------------------------------------------------
(* Bugs this code could have; each replaces the definition named beside it *)
RestartAfterTen == 1       \* RestartCount: loopCount = 10

-----------------------------------------------------------------------------
(* loopCount = 9 when the link is down, incremented at the end of the loop *)
RestartCount == 0
NextCount == loop' = (loop + 1) % Period

(* The link is down: the light flashes red.                                *)
NoLink ==
  /\ step = "sleep" /\ ~checkLinkStatus
  /\ linkSeen' = FALSE
  /\ loop' = RestartCount
  /\ SetLight(IF light # "red" THEN "red" ELSE "black")
  /\ UNCHANGED <<nationVars, step, token, body>>

(* The link is up, and this is not the round in which the nation is asked. *)
Skip ==
  /\ step = "sleep" /\ checkLinkStatus /\ loop # 0
  /\ linkSeen' = TRUE
  /\ NextCount
  /\ LightStays
  /\ UNCHANGED <<nationVars, step, token, body>>

Ask ==
  /\ step = "sleep" /\ checkLinkStatus /\ loop = 0
  /\ linkSeen' = TRUE
  /\ step' = IF token = Nothing THEN "register" ELSE "ping"
  /\ SetLight(IF token = Nothing THEN "orange" ELSE "green")
  /\ UNCHANGED <<nationVars, token, body, loop>>

(* The answer to the registration: a token, and with it the ping follows.  *)
Registered ==
  /\ step = "register" /\ Reachable
  /\ \E t \in Tokens : token' = t /\ body' = t /\ known' = {t}
  /\ SetLight("green")
  /\ step' = "ping"
  /\ UNCHANGED <<link, up, loop, linkSeen>>

(* The answer is no JSON, and the body still that of a registration.       *)
RegisteredAnew ==
  /\ step = "register" /\ Reachable /\ body # Nothing
  /\ token' = body
  /\ SetLight("green")
  /\ step' = "ping"
  /\ UNCHANGED <<nationVars, body, loop, linkSeen>>

NotRegistered ==
  /\ step = "register" /\ ~Reachable
  /\ step' = "sleep"
  /\ NextCount
  /\ LightStays
  /\ UNCHANGED <<nationVars, token, body, linkSeen>>

(* The answer to the ping, which takes the place of the last body if it is *)
(* JSON; without an answer, or with a bad one, the token is void.          *)
Pinged ==
  /\ step = "ping" /\ Reachable /\ token \in known
  /\ step' = "sleep"
  /\ body' \in {body, Nothing}
  /\ NextCount
  /\ LightStays
  /\ UNCHANGED <<nationVars, token, linkSeen>>

NotPinged ==
  /\ step = "ping" /\ ~(Reachable /\ token \in known)
  /\ step' = "sleep"
  /\ SetLight("orange")
  /\ token' = Nothing
  /\ body' \in IF Reachable THEN {body, Nothing} ELSE {body}
  /\ NextCount
  /\ UNCHANGED <<nationVars, linkSeen>>

LoopStep ==
  \/ NoLink \/ Skip \/ Ask
  \/ Registered \/ RegisteredAnew \/ NotRegistered
  \/ Pinged \/ NotPinged

-----------------------------------------------------------------------------
(* rtjam-status starts, or is started again.                               *)
StatusStarts ==
  /\ light' = "green" /\ stray' = TRUE
  /\ UNCHANGED <<nationVars, step, token, body, loop, linkSeen>>

(* rtjam-box dies and is started again.                                    *)
Starts ==
  /\ step' = "sleep" /\ token' = Nothing /\ body' = Nothing
  /\ loop' = 0 /\ linkSeen' = FALSE
  /\ SetLight("red")
  /\ UNCHANGED nationVars

LinkChanges ==
  /\ link' \in {"down", "noaddress", "up"} \ {link}
  /\ UNCHANGED <<up, known, loopVars>>
NationStarts == ~up /\ up' = TRUE /\ UNCHANGED <<link, known, loopVars>>
NationStops ==
  /\ up
  /\ up' = FALSE
  /\ known' \in {known, {}}
  /\ UNCHANGED <<link, loopVars>>

RegistrationInit ==
  /\ link \in {"down", "noaddress", "up"} /\ up \in BOOLEAN /\ known = {}
  /\ step = "sleep" /\ token = Nothing /\ body = Nothing /\ loop = 0
  /\ linkSeen = FALSE /\ light = "red" /\ stray = FALSE

-----------------------------------------------------------------------------
(* Whenever the loop sleeps the light tells what the box knows: it flashes *)
(* red when checkLinkStatus has last called the link down, and otherwise   *)
(* is green exactly when the box has a token; also right after the link    *)
(* has come back, since the nation is asked in that very round.  Only a    *)
(* start of rtjam-status makes it stray, to the next round in which the    *)
(* nation is asked.                                                        *)
LightHonest ==
  step = "sleep" /\ ~stray =>
    IF linkSeen THEN light = (IF token # Nothing THEN "green" ELSE "orange")
    ELSE light \in {"red", "black"}
=============================================================================
