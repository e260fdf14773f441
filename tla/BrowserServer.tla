---------------------------- MODULE BrowserServer ----------------------------
(***************************************************************************)
(* The servers of the command "browser" that share a store, from the search*)
(* for a free port to the removal of the port file, the browser tabs that  *)
(* stream their events, the notices other processes send to the server the *)
(* port file names, and the monitor of the services.  A server is one run  *)
(* of the command; passwords and the OpenCode runtime are left out.        *)
(***************************************************************************)
EXTENDS Naturals, Sequences, SequencesExt

CONSTANTS
  Servers,        \* runs of "browser"
  Tabs,           \* streams of events browsers open
  Notices,        \* calls of notifyServer, by MCP processes
  Attempts,       \* ports tried, numbered from the one asked for; 10 in the code
  QueueSize,      \* events that wait for one stream; 64 in the code
  MaxUpsets       \* bound: servers killed, port files not written or not removed, notices not
                  \* relayed and changes of the services, all together

NoServer == "no server"
NoPort == 0
StatusEvent == "service:status"

ASSUME BrowserNames ==
  /\ NoServer \notin Servers /\ StatusEvent \notin Notices
  /\ Attempts \in Nat \ {0} /\ QueueSize \in Nat

VARIABLES
  stage, port,    \* how far each server is, and the port it tries or has
  portFile,       \* .know-me/.server-port: a port, or NoPort without a file
  viewer,         \* the server each tab streams from
  pending,        \* events in the channel of the tab
  shown, missed,  \* events the tab got, and those dropped because the channel was full
  notice,         \* how far each notice is
  target, sentTo, \* the port read for it, and the server that accepted it
  service, known, \* the status of the services, and the one each monitor saw last
  upsets,         \* of these so far
  author,         \* history: the server whose port the file holds
  wrote, alone,   \* history: servers that wrote the file; that no other has run beside
  due             \* history: tabs a notice has to reach, see ReadServerPort

serverVars == <<stage, port, portFile, author, wrote, alone>>
tabVars == <<viewer, pending, shown, missed>>
noticeVars == <<notice, target, sentTo, due>>
monitorVars == <<service, known>>
browserVars == <<serverVars, tabVars, noticeVars, monitorVars, upsets>>

Upset == upsets < MaxUpsets /\ upsets' = upsets + 1
Alive(s) == stage[s] \notin {"off", "ended", "killed"}
Listens(s) == stage[s] \in {"bound", "ready", "written", "serving"}

BrowserInit ==
  /\ stage = [s \in Servers |-> "off"] /\ port = [s \in Servers |-> 1]
  /\ portFile = NoPort /\ author = NoServer
  /\ wrote = [s \in Servers |-> FALSE] /\ alone = [s \in Servers |-> FALSE]
  /\ viewer = [t \in Tabs |-> NoServer] /\ pending = [t \in Tabs |-> <<>>]
  /\ shown = [t \in Tabs |-> {}] /\ missed = [t \in Tabs |-> {}]
  /\ notice = [n \in Notices |-> "unsent"] /\ target = [n \in Notices |-> NoPort]
  /\ sentTo = [n \in Notices |-> NoServer] /\ due = [n \in Notices |-> {}]
  /\ service = "down" /\ known = [s \in Servers |-> "down"]
  /\ upsets = 0

-----------------------------------------------------------------------------
(* Servers.  A run with --restart first has a server on its port stopped,  *)
(* which is Shutdown below, and goes on whether the port is free by then or*)
(* not.                                                                    *)
RunBrowser(s) ==
  /\ stage[s] = "off" /\ stage' = [stage EXCEPT ![s] = "bind"]
  /\ alone' = [t \in Servers |-> IF t = s THEN \A u \in Servers : ~Alive(u)
                                 ELSE alone[t] /\ ~Alive(t)]
  /\ UNCHANGED <<port, portFile, author, wrote, tabVars, noticeVars, monitorVars, upsets>>

(* bindBrowserPort, one port.                                              *)
TryPort(s) ==
  /\ stage[s] = "bind"
  /\ \/ /\ \A t \in Servers : ~(Listens(t) /\ port[t] = port[s])
        /\ stage' = [stage EXCEPT ![s] = "bound"] /\ UNCHANGED port
     \/ /\ \E t \in Servers : Listens(t) /\ port[t] = port[s]
        /\ IF port[s] < Attempts
             THEN port' = [port EXCEPT ![s] = port[s] + 1] /\ UNCHANGED stage
             ELSE stage' = [stage EXCEPT ![s] = "ended"] /\ UNCHANGED port
  /\ UNCHANGED <<portFile, author, wrote, alone, tabVars, noticeVars, monitorVars, upsets>>

(* NewServer: the monitor takes its first look.                            *)
NewServer(s) ==
  /\ stage[s] = "bound" /\ stage' = [stage EXCEPT ![s] = "ready"]
  /\ known' = [known EXCEPT ![s] = service]
  /\ UNCHANGED <<port, portFile, author, wrote, alone, tabVars, noticeVars, service, upsets>>

WritePortFile(s) ==
  /\ stage[s] = "ready" /\ stage' = [stage EXCEPT ![s] = "written"]
  /\ portFile' = port[s] /\ author' = s /\ wrote' = [wrote EXCEPT ![s] = TRUE]
  /\ UNCHANGED <<port, alone, tabVars, noticeVars, monitorVars, upsets>>

(* A file that cannot be written is only warned about.                     *)
WriteFails(s) ==
  /\ stage[s] = "ready" /\ stage' = [stage EXCEPT ![s] = "written"]
  /\ Upset
  /\ UNCHANGED <<port, portFile, author, wrote, alone, tabVars, noticeVars, monitorVars>>

Serve(s) ==
  /\ stage[s] = "written" /\ stage' = [stage EXCEPT ![s] = "serving"]
  /\ UNCHANGED <<port, portFile, author, wrote, alone, tabVars, noticeVars, monitorVars, upsets>>

(* Tabs that a server leaves need not be reached by what was sent to it.   *)
Excuse(tabs) == due' = [n \in Notices |-> due[n] \ tabs]
TabsOf(s) == {t \in Tabs : viewer[t] = s}

(* An interrupt, or a request of "browser --restart": the listener is      *)
(* closed at once, the streams go on for up to five seconds.               *)
Shutdown(s) ==
  /\ stage[s] = "serving" /\ stage' = [stage EXCEPT ![s] = "closing"]
  /\ Excuse(TabsOf(s))
  /\ UNCHANGED <<port, portFile, author, wrote, alone, tabVars, notice, target, sentTo, monitorVars,
                 upsets>>

(* The file is removed whichever server wrote it: after Shutdown, or at    *)
(* once when the listener breaks.                                          *)
CleanupPortFile(s) ==
  /\ stage[s] \in {"serving", "closing"} /\ stage' = [stage EXCEPT ![s] = "cleaned"]
  /\ portFile' = NoPort /\ author' = NoServer
  /\ Excuse(TabsOf(s))
  /\ UNCHANGED <<port, wrote, alone, tabVars, notice, target, sentTo, monitorVars, upsets>>

(* A file that cannot be removed stays: the error is dropped.              *)
RemoveFails(s) ==
  /\ stage[s] \in {"serving", "closing"} /\ stage' = [stage EXCEPT ![s] = "left"]
  /\ Upset
  /\ Excuse(TabsOf(s))
  /\ UNCHANGED <<port, portFile, author, wrote, alone, tabVars, notice, target, sentTo, monitorVars>>

(* The streams of a process end with it, and what waited in them is gone.  *)
(* A server that could not remove the file counts as killed from then on.  *)
Disconnect(tabs) ==
  /\ viewer' = [t \in Tabs |-> IF t \in tabs THEN NoServer ELSE viewer[t]]
  /\ pending' = [t \in Tabs |-> IF t \in tabs THEN <<>> ELSE pending[t]]
  /\ shown' = [t \in Tabs |-> IF t \in tabs THEN {} ELSE shown[t]]
  /\ missed' = [t \in Tabs |-> IF t \in tabs THEN {} ELSE missed[t]]
  /\ Excuse(tabs)

ServerEnds(s) ==
  /\ \/ stage[s] = "cleaned" /\ stage' = [stage EXCEPT ![s] = "ended"]
     \/ stage[s] = "left" /\ stage' = [stage EXCEPT ![s] = "killed"]
  /\ Disconnect(TabsOf(s))
  /\ UNCHANGED <<port, portFile, author, wrote, alone, notice, target, sentTo, monitorVars, upsets>>

ServerKilled(s) ==
  /\ Alive(s) /\ stage' = [stage EXCEPT ![s] = "killed"]
  /\ Upset
  /\ Disconnect(TabsOf(s))
  /\ UNCHANGED <<port, portFile, author, wrote, alone, notice, target, sentTo, monitorVars>>

-----------------------------------------------------------------------------
(* Streams.                                                                *)
Subscribe(t, s) ==
  /\ viewer[t] = NoServer /\ stage[s] = "serving"
  /\ viewer' = [viewer EXCEPT ![t] = s]
  /\ UNCHANGED <<serverVars, pending, shown, missed, noticeVars, monitorVars, upsets>>

Unsubscribe(t) ==
  /\ viewer[t] # NoServer /\ Disconnect({t})
  /\ UNCHANGED <<serverVars, notice, target, sentTo, monitorVars, upsets>>

ShowEvent(t) ==
  /\ pending[t] # <<>>
  /\ shown' = [shown EXCEPT ![t] = @ \union {Head(pending[t])}]
  /\ pending' = [pending EXCEPT ![t] = Tail(@)]
  /\ UNCHANGED <<serverVars, viewer, missed, noticeVars, monitorVars, upsets>>

HasRoom(t) == Len(pending[t]) < QueueSize

(* The mutant waits for no one, but leaves when it meets a full channel.   *)
BroadcastUntilFull(s, event) ==
  LET room == \A t \in TabsOf(s) : HasRoom(t)
  IN /\ pending' = [t \in Tabs |-> IF t \in TabsOf(s) /\ room THEN Append(pending[t], event) ELSE pending[t]]
     /\ missed' = [t \in Tabs |-> IF t \in TabsOf(s) /\ ~HasRoom(t) THEN missed[t] \union {event}
                                  ELSE missed[t]]

Broadcast(s, event) ==
  /\ pending' = [t \in Tabs |-> IF t \in TabsOf(s) /\ HasRoom(t) THEN Append(pending[t], event)
                                ELSE pending[t]]
  /\ missed' = [t \in Tabs |-> IF t \in TabsOf(s) /\ ~HasRoom(t) THEN missed[t] \union {event}
                               ELSE missed[t]]

-----------------------------------------------------------------------------
(* Notices.  Due are the tabs of the server that wrote the file, as long as*)
(* it serves and they stay.                                                *)
ReadServerPort(n) ==
  /\ notice[n] = "unsent" /\ target' = [target EXCEPT ![n] = portFile]
  /\ IF portFile = NoPort
       THEN notice' = [notice EXCEPT ![n] = "dropped"] /\ UNCHANGED due
       ELSE /\ notice' = [notice EXCEPT ![n] = "read"]
            /\ due' = [due EXCEPT ![n] = {t \in TabsOf(author) : stage[author] = "serving"}]
  /\ UNCHANGED <<serverVars, tabVars, sentTo, monitorVars, upsets>>

(* A connection is accepted as soon as the port is bound, and answered once*)
(* the server serves; the sender gives up after two seconds, which does not*)
(* take the request back.                                                  *)
Connect(n) ==
  /\ notice[n] = "read"
  /\ \E s \in Servers :
       /\ Listens(s) /\ port[s] = target[n]
       /\ sentTo' = [sentTo EXCEPT ![n] = s] /\ notice' = [notice EXCEPT ![n] = "sent"]
  /\ UNCHANGED <<serverVars, tabVars, target, due, monitorVars, upsets>>

(* Nobody listens, or whoever accepted the request is gone: ignored.       *)
Refused(n) ==
  /\ \/ notice[n] = "read" /\ \A s \in Servers : ~(Listens(s) /\ port[s] = target[n])
     \/ notice[n] = "sent" /\ ~Alive(sentTo[n])
  /\ notice' = [notice EXCEPT ![n] = "dropped"]
  /\ UNCHANGED <<serverVars, tabVars, target, sentTo, due, monitorVars, upsets>>

Relay(n) ==
  /\ notice[n] = "sent" /\ stage[sentTo[n]] \in {"serving", "closing", "cleaned", "left"}
  /\ Broadcast(sentTo[n], n) /\ notice' = [notice EXCEPT ![n] = "relayed"]
  /\ UNCHANGED <<serverVars, viewer, shown, target, sentTo, due, monitorVars, upsets>>

(* notifyTime answers 500 when the timers cannot be read.                  *)
RelayFails(n) ==
  /\ notice[n] = "sent" /\ stage[sentTo[n]] \in {"serving", "closing", "cleaned", "left"}
  /\ notice' = [notice EXCEPT ![n] = "dropped"]
  /\ Upset
  /\ UNCHANGED <<serverVars, tabVars, target, sentTo, due, monitorVars>>

-----------------------------------------------------------------------------
(* Services.                                                               *)
ServiceFlips ==
  /\ Upset
  /\ service' = IF service = "up" THEN "down" ELSE "up"
  /\ UNCHANGED <<serverVars, tabVars, noticeVars, known>>

MonitorTick(s) ==
  /\ stage[s] \in {"ready", "written", "serving", "closing", "cleaned", "left"}
  /\ known[s] # service /\ known' = [known EXCEPT ![s] = service]
  /\ Broadcast(s, StatusEvent)
  /\ UNCHANGED <<serverVars, viewer, shown, noticeVars, service, upsets>>

BrowserNext ==
  \/ \E s \in Servers :
       \/ RunBrowser(s) \/ TryPort(s) \/ NewServer(s) \/ WritePortFile(s) \/ WriteFails(s) \/ Serve(s)
       \/ Shutdown(s) \/ CleanupPortFile(s) \/ RemoveFails(s) \/ ServerEnds(s) \/ ServerKilled(s)
       \/ MonitorTick(s)
       \/ \E t \in Tabs : Subscribe(t, s)
  \/ \E t \in Tabs : Unsubscribe(t) \/ ShowEvent(t)
  \/ \E n \in Notices : ReadServerPort(n) \/ Connect(n) \/ Refused(n) \/ Relay(n) \/ RelayFails(n)
  \/ ServiceFlips

BrowserSpec == BrowserInit /\ [][BrowserNext]_browserVars

-----------------------------------------------------------------------------
(* A port file outlives only a server that was killed or could not remove  *)
(* it: whoever wrote it last has its port and runs, or ended like that.    *)
PortFileIsCleaned ==
  portFile # NoPort =>
    /\ author \in Servers /\ port[author] = portFile
    /\ stage[author] \in {"written", "serving", "closing", "left", "killed"}

(* A server that serves and has written the file is named by it, unless    *)
(* another server has run beside it.                                       *)
LoneServerIsNamed ==
  \A s \in Servers : stage[s] = "serving" /\ alone[s] /\ wrote[s] => author = s

(* A notice that was relayed has reached every tab of the server the file  *)
(* named: it was shown, waits in the channel, or found the channel full.   *)
NoticesArrive ==
  \A n \in Notices : notice[n] = "relayed" =>
    \A t \in due[n] : n \in shown[t] \union missed[t] \union ToSet(pending[t])

(* What an MCP process says of a change reaches the browser: the port file *)
(* names a server, and that server tells every tab (server.go:788-805,     *)
(* sse.go:80-90, notify.go:14-41).                                         *)
ChangesReachTabs == PortFileIsCleaned /\ LoneServerIsNamed /\ NoticesArrive
===============================================================================
