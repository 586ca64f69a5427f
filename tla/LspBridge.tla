----------------------------- MODULE LspBridge -----------------------------
(***************************************************************************)
(* enrichment/lsp_bridge.py: index_folder's bridge to language servers,    *)
(* one child process for each language.  The caller's thread starts a      *)
(* child, sends "initialize" and waits for the answer, up to a timeout; a  *)
(* reader thread per child hands over what it reads from the child's       *)
(* stdout by request id; at the end the bridge stops the children that it  *)
(* has registered.                                                         *)
(*                                                                         *)
(* _send_notification passes two arguments to _encode_message, which takes *)
(* one: it raises as long as the child runs.  What comes after the first   *)
(* notification is reached only by a child that has died, and then does    *)
(* nothing: no definition is ever asked for.                               *)
(***************************************************************************)
EXTENDS Naturals, Sequences

CONSTANTS Languages,   \* languages with call sites
          OwnIds       \* ids of the requests that children send of their own;
                       \* nobody ever waits for 0

ASSUME LspAssumption == OwnIds \subseteq Nat \ {0}

VARIABLES pcLsp,      \* where the caller is
          language,   \* the language whose child it deals with
          visited,    \* languages tried
          servers,    \* _servers: the registered languages
          failed,     \* _failed_languages
          child,      \* [Languages -> the child process]
          stopping,   \* the servers whose _shutdown is set
          reader,     \* [Languages -> the reader thread]
          toChild,    \* [Languages -> ids of requests the child has not answered]
          fromChild,  \* [Languages -> messages in its stdout]
          pending,    \* the id the caller waits for, or 0
          answer,     \* the message it got
          accepted    \* history: children that answered "initialize" with a result

lspVars == <<pcLsp, language, visited, servers, failed, child, stopping, reader,
             toChild, fromChild, pending, answer, accepted>>

\* The bridge counts the requests to each child: "initialize" is the first.
Initialize == 1
Shutdown   == 2
Ids        == {Initialize, Shutdown}
\* A message: its id, and what it really is -- the answer to a request, with a
\* result or none, or a request of the child's, whose id may be one of the bridge's.
Message == [id : Ids \cup OwnIds, result : BOOLEAN, own : BOOLEAN]
NoAnswer == [id |-> 0]
NoLanguage == "no language"
Pcs == {"next", "ask", "wait", "notify", "stop", "waitStop", "shutdown", "done"}

LspTypeOK ==
    /\ pcLsp \in Pcs
    /\ language \in Languages \cup {NoLanguage}
    /\ visited \in SUBSET Languages /\ servers \in SUBSET visited
    /\ failed \in SUBSET visited
    /\ child \in [Languages -> {"none", "alive", "dead"}]
    /\ stopping \in SUBSET Languages
    /\ reader \in [Languages -> {"none", "check", "read", "gone"}]
    /\ toChild \in [Languages -> SUBSET Ids]
    /\ fromChild \in [Languages -> Seq(Message)]
    /\ pending \in Ids \cup {0}
    /\ answer \in Message \cup {NoAnswer}
    /\ accepted \in SUBSET Languages

LspInit ==
    /\ pcLsp = "next" /\ language = NoLanguage
    /\ visited = {} /\ servers = {} /\ failed = {}
    /\ child = [l \in Languages |-> "none"]
    /\ stopping = {}
    /\ reader = [l \in Languages |-> "none"]
    /\ toChild = [l \in Languages |-> {}]
    /\ fromChild = [l \in Languages |-> <<>>]
    /\ pending = 0 /\ answer = NoAnswer
    /\ accepted = {}

bridgeVars == <<visited, servers, failed>>
requestVars == <<toChild, pending, answer>>
childVars == <<child, reader, fromChild, accepted>>

----------------------------------------------------------------------------
(* The caller: resolve_references and _get_server, language by language *)

\* No server, no binary, or no process.
Unavailable(l) ==
    /\ pcLsp = "next" /\ l \notin visited
    /\ visited' = visited \cup {l}
    /\ failed' = failed \cup {l}
    /\ UNCHANGED <<pcLsp, language, servers, stopping, requestVars, childVars>>

\* LSPServer.start: the child and its reader.
Spawn(l) ==
    /\ pcLsp = "next" /\ l \notin visited
    /\ visited' = visited \cup {l}
    /\ language' = l
    /\ child' = [child EXCEPT ![l] = "alive"]
    /\ reader' = [reader EXCEPT ![l] = "check"]
    /\ pcLsp' = "ask"
    /\ UNCHANGED <<servers, failed, stopping, requestVars, fromChild, accepted>>

\* _send_request: nothing is sent to a child that does not run.
Send(id, wait, dead) ==
    /\ answer' = NoAnswer
    /\ IF child[language] = "alive"
       THEN /\ pending' = id
            /\ toChild' = [toChild EXCEPT ![language] = @ \cup {id}]
            /\ pcLsp' = wait
       ELSE /\ pcLsp' = dead
            /\ UNCHANGED <<pending, toChild>>

AskInitialize ==
    /\ pcLsp = "ask"
    /\ Send(Initialize, "wait", "stop")
    /\ UNCHANGED <<language, bridgeVars, stopping, childVars>>

\* A wrong handshake, which takes any answer for a yes.
TakeAnswerUnchecked ==
    /\ pcLsp = "wait" /\ answer # NoAnswer
    /\ pcLsp' = "notify"
    /\ UNCHANGED <<language, bridgeVars, stopping, requestVars, childVars>>

\* The event is set: an answer without a result fails the handshake, and so does a
\* request of the child's that was taken for the answer.
TakeAnswer ==
    /\ pcLsp = "wait" /\ answer # NoAnswer
    /\ pcLsp' = IF answer.result THEN "notify" ELSE "stop"
    /\ UNCHANGED <<language, bridgeVars, stopping, requestVars, childVars>>

\* A wrong wait, which ends only when the child has died.
TimeOutDead ==
    /\ pcLsp = "wait" /\ answer = NoAnswer /\ child[language] = "dead"
    /\ pending' = 0
    /\ pcLsp' = "stop"
    /\ UNCHANGED <<language, bridgeVars, stopping, toChild, answer, childVars>>

\* The wait ends after lsp_timeout_seconds, whatever happened to the child.
TimeOut ==
    /\ pcLsp = "wait" /\ answer = NoAnswer
    /\ pending' = 0
    /\ pcLsp' = "stop"
    /\ UNCHANGED <<language, bridgeVars, stopping, toChild, answer, childVars>>

\* The "initialized" notification raises, out of start, _get_server and
\* resolve_references, to the finally that shuts the bridge down.
NotifyRaises ==
    /\ pcLsp = "notify" /\ child[language] = "alive"
    /\ pcLsp' = "shutdown"
    /\ UNCHANGED <<language, bridgeVars, stopping, requestVars, childVars>>

\* No child, no notification: the server is registered, its files are not opened
\* and its call sites are resolved to nothing.
NotifyDead ==
    /\ pcLsp = "notify" /\ child[language] = "dead"
    /\ servers' = servers \cup {language}
    /\ pcLsp' = "next"
    /\ UNCHANGED <<language, visited, failed, stopping, requestVars, childVars>>

AllTried ==
    /\ pcLsp = "next" /\ visited = Languages
    /\ pcLsp' = "shutdown"
    /\ UNCHANGED <<language, bridgeVars, stopping, requestVars, childVars>>

----------------------------------------------------------------------------
(* LSPServer.stop, after a failed handshake or from LSPBridge.shutdown *)

\* A wrong stop, which forgets a child instead of asking and terminating it.
StopForgets ==
    /\ pcLsp = "stop"
    /\ stopping' = stopping \cup {language}
    /\ failed' = failed \cup {language}
    /\ pcLsp' = "next"
    /\ UNCHANGED <<language, visited, servers, requestVars, childVars>>

AskShutdown ==
    /\ pcLsp = "stop"
    /\ stopping' = stopping \cup {language}
    /\ Send(Shutdown, "waitStop", "waitStop")
    /\ UNCHANGED <<language, bridgeVars, childVars>>

\* Answered, timed out or not asked: the "exit" notification raises and is
\* ignored, and the process is terminated, or killed.
Terminate ==
    /\ pcLsp = "waitStop"
    /\ pending' = 0
    /\ child' = [child EXCEPT ![language] = "dead"]
    /\ failed' = failed \cup {language}
    /\ pcLsp' = "next"
    /\ UNCHANGED <<language, visited, servers, stopping, toChild, answer,
                   reader, fromChild, accepted>>

\* LSPBridge.shutdown stops the registered servers.  They have died, so that stop
\* asks and terminates nothing.
ShutdownBridge ==
    /\ pcLsp = "shutdown"
    /\ stopping' = stopping \cup servers
    /\ servers' = {}
    /\ failed' = {}
    /\ pcLsp' = "done"
    /\ UNCHANGED <<language, visited, requestVars, childVars>>

----------------------------------------------------------------------------
(* The child, and the reader thread *)

Respond(l, id, result) ==
    /\ child[l] = "alive" /\ id \in toChild[l]
    /\ toChild' = [toChild EXCEPT ![l] = @ \ {id}]
    /\ fromChild' = [fromChild EXCEPT ![l] =
                       Append(@, [id |-> id, result |-> result, own |-> FALSE])]
    /\ accepted' = IF id = Initialize /\ result THEN accepted \cup {l} ELSE accepted
    /\ UNCHANGED <<pcLsp, language, bridgeVars, stopping, child, reader, pending, answer>>

\* A request of the child's, under an id of its own count; the bridge answers none.
\* Bound: it sends none before what it has written was read.
AskBack(l, id) ==
    /\ child[l] = "alive" /\ fromChild[l] = <<>>
    /\ fromChild' = [fromChild EXCEPT ![l] =
                       Append(@, [id |-> id, result |-> FALSE, own |-> TRUE])]
    /\ UNCHANGED <<pcLsp, language, bridgeVars, stopping, requestVars,
                   child, reader, accepted>>

Die(l) ==
    /\ child[l] = "alive"
    /\ child' = [child EXCEPT ![l] = "dead"]
    /\ UNCHANGED <<pcLsp, language, bridgeVars, stopping, requestVars,
                   reader, fromChild, accepted>>

\* The loop goes on while the server is not stopped and the child runs.
CheckLoop(l) ==
    /\ reader[l] = "check"
    /\ reader' = [reader EXCEPT ![l] =
                    IF l \notin stopping /\ child[l] = "alive" THEN "read" ELSE "gone"]
    /\ UNCHANGED <<pcLsp, language, bridgeVars, stopping, requestVars,
                   child, fromChild, accepted>>

\* _pending.pop: the reader looks at the id of a message, and at nothing else in it.
WaitedFor(m) == m.id = pending

\* A message of an id nobody waits for, a late answer, is dropped.
ReadMessage(l) ==
    /\ reader[l] = "read" /\ fromChild[l] # <<>>
    /\ fromChild' = [fromChild EXCEPT ![l] = Tail(@)]
    /\ reader' = [reader EXCEPT ![l] = "check"]
    /\ LET m == Head(fromChild[l])
       IN  IF l = language /\ WaitedFor(m)
           THEN answer' = m /\ pending' = 0
           ELSE UNCHANGED <<answer, pending>>
    /\ UNCHANGED <<pcLsp, language, bridgeVars, stopping, child, toChild, accepted>>

\* End of file, or a message that cannot be parsed.
ReadEnds(l) ==
    /\ reader[l] = "read"
    /\ fromChild[l] # <<>> \/ child[l] = "dead"
    /\ reader' = [reader EXCEPT ![l] = "gone"]
    /\ UNCHANGED <<pcLsp, language, bridgeVars, stopping, requestVars,
                   child, fromChild, accepted>>

----------------------------------------------------------------------------
CallerStep ==
    \/ \E l \in Languages : Unavailable(l) \/ Spawn(l)
    \/ AskInitialize \/ TakeAnswer \/ TimeOut \/ NotifyRaises \/ NotifyDead \/ AllTried
    \/ AskShutdown \/ Terminate \/ ShutdownBridge

LspNext ==
    \/ CallerStep
    \/ \E l \in Languages :
         \/ \E id \in Ids, result \in BOOLEAN : Respond(l, id, result)
         \/ \E id \in OwnIds : AskBack(l, id)
         \/ Die(l) \/ CheckLoop(l) \/ ReadMessage(l) \/ ReadEnds(l)

LspSpec == LspInit /\ [][LspNext]_lspVars

----------------------------------------------------------------------------
(* Properties *)

\* What the finally of resolve_references leaves running: at most the child whose
\* notification raised, and that one has accepted the handshake.  Every other child,
\* silent, late, refusing, or misunderstood because it numbers its own requests like
\* the bridge, was terminated.
OnlyAcceptedSurvive ==
    pcLsp = "done" =>
      \A l \in Languages : child[l] = "alive" => l = language /\ l \in accepted

\* "Stop all running LSP servers" (lsp_bridge.py 702).
AllStopped ==
    pcLsp = "done" => \A l \in Languages : child[l] # "alive"

\* Whatever the children do -- never answer, answer late, die -- index_folder gets
\* past the bridge: every wait is bounded by the timeout.
BridgeEnds == pcLsp # "next" ~> pcLsp = "done"

\* What is taken for an answer is no request of the child's (violated: nothing keeps
\* the ids that a child gives apart from the bridge's, both count from 0 or 1).
NoMixUp == answer # NoAnswer => ~answer.own
=============================================================================
