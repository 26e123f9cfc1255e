----------------------------- MODULE HttpFiles -----------------------------
(***************************************************************************)
(* Http.download (http.py) on top of HttpBudget: one thread, D, downloads  *)
(* one URL to one file, or makes other requests, while the content at the  *)
(* URL changes.  The validators of a download are kept in a sidecar and    *)
(* sent with the next, whose answer may be that nothing changed.  Content  *)
(* is its version: the file of an empty or torn sidecar is 0.  The .part   *)
(* file is D's alone, so it has no variable; the response cache stays out. *)
(***************************************************************************)
EXTENDS HttpBudget

CONSTANTS D,          \* the thread that downloads
          MaxVersion  \* bound on the versions of the content

ASSUME HttpFilesAssumption == D \in Threads /\ MaxVersion \in Nat \ {0}

VARIABLES
    server,      \* version the URL has
    dest, meta,  \* versions of the file (0: there is none) and of its sidecar
    prior,       \* version whose validators the download sends, 0 for none
    body,        \* version of the response being streamed, 0 when none is
    stage,       \* where the attempt of the download is
    torn,        \* history: a download ended with the file replaced and the old sidecar
    told         \* history: version the latest download returned, 0 if it has not

files == <<dest, meta>>
fileVars == <<server, files, prior, body, stage, torn, told>>
allVars == <<vars, fileVars>>

FilesTypeOK ==
    /\ TypeOK
    /\ server \in 1..MaxVersion
    /\ {dest, meta, prior, body, told} \subseteq 0..MaxVersion
    /\ torn \in BOOLEAN
    /\ stage \in {"request", "headers", "body", "replaced", "sidecar"}

FilesInit ==
    /\ Init
    /\ server = 1
    /\ dest = 0 /\ meta = 0
    /\ prior = 0 /\ body = 0 /\ told = 0 /\ torn = FALSE
    /\ stage = "request"
-----------------------------------------------------------------------------
\* Any other request of any thread.
Request(t) ==
    /\ Call(t)
    /\ IF t = D THEN stage' = "request" /\ prior' = 0 ELSE UNCHANGED <<stage, prior>>
    /\ UNCHANGED <<server, files, body, torn, told>>

\* download: unless forced, or without the file, the sidecar's validators are sent, in
\* every attempt of this call.
Download ==
    /\ Call(D)
    /\ stage' = "headers"
    /\ prior' \in {0, IF dest = 0 THEN 0 ELSE meta}
    /\ told' = 0
    /\ UNCHANGED <<server, files, body, torn>>

Attempted(t) ==
    \/ CheckBudget(t) \/ Throttle(t) \/ Send(t) \/ NotSent(t)
    \/ ReadCount(t) \/ Truncate(t) \/ WriteCount(t)

\* The response of a request, or of a download that is refused or has no answer.
Respond(t) ==
    /\ t = D => stage \in {"request", "headers"}
    /\ Answered(t) \/ Escapes(t) \/ TargetUnopened(t)
    /\ UNCHANGED fileVars

Redirect(t) ==
    /\ t = D => stage \in {"request", "headers"}
    /\ Redirected(t)
    /\ UNCHANGED fileVars

\* 304: the validators are those of the content, the file is left as it is.
NotModified ==
    /\ stage = "headers"
    /\ prior = server
    /\ Answered(D) /\ verdict'[D] = "done"
    /\ told' = server
    /\ UNCHANGED <<server, files, prior, body, stage, torn>>

SidecarAtHeaders ==  \* mutant: the sidecar is written when the headers arrive
    /\ stage = "headers" /\ pc[D] = "sending"
    /\ prior # server
    /\ body' = server
    /\ meta' = server
    /\ stage' = "body"
    /\ UNCHANGED <<vars, server, dest, prior, torn, told>>

\* 200: the body is streamed to the .part file ...
Stream ==
    /\ stage = "headers" /\ pc[D] = "sending"
    /\ prior # server
    /\ body' = server
    /\ stage' = "body"
    /\ UNCHANGED <<vars, server, files, prior, torn, told>>

\* ... which moves into place when it is complete ...
Replace ==
    /\ stage = "body"
    /\ dest' = body
    /\ stage' = "replaced"
    /\ UNCHANGED <<vars, server, meta, prior, body, torn, told>>

\* ... and then write_text empties the sidecar ...
TruncateSidecar ==
    /\ stage = "replaced"
    /\ meta' = 0
    /\ torn' = FALSE
    /\ stage' = "sidecar"
    /\ UNCHANGED <<vars, server, dest, prior, body, told>>

\* ... and writes it.
WriteSidecar ==
    /\ stage = "sidecar"
    /\ meta' = body
    /\ told' = body
    /\ body' = 0
    /\ stage' = "headers"
    /\ Answered(D) /\ verdict'[D] = "done"
    /\ UNCHANGED <<server, dest, prior, torn>>

\* The connection breaks in the body, which is retried; or the disk fails in any of
\* these steps, which is not.
Break ==
    /\ \/ stage = "body" /\ Answered(D) /\ verdict'[D] = "retry"
       \/ stage \in {"body", "replaced", "sidecar"} /\ Escapes(D)
    /\ stage' = "headers"
    /\ torn' = (torn \/ stage = "replaced")
    /\ body' = 0
    /\ UNCHANGED <<server, files, prior, told>>

\* The content changes, or goes back to an earlier version with its validators.
Change ==
    /\ server' \in 1..MaxVersion
    /\ UNCHANGED <<vars, files, prior, body, stage, torn, told>>

\* The agent removes the file it has read.
Remove ==
    /\ pc[D] = "idle"
    /\ dest # 0
    /\ dest' = 0
    /\ told' = 0
    /\ UNCHANGED <<vars, server, meta, prior, body, stage, torn>>

FilesCrash ==
    /\ Crash
    /\ stage' = "request"
    /\ torn' = (torn \/ stage = "replaced")
    /\ prior' = 0 /\ body' = 0 /\ told' = 0
    /\ UNCHANGED <<server, files>>

DStep ==
    \/ NotModified \/ Stream \/ Replace \/ TruncateSidecar \/ WriteSidecar \/ Break

FilesStep(t) ==
    \/ Attempted(t) /\ UNCHANGED fileVars
    \/ Respond(t)
    \/ t = D /\ DStep

FilesNext ==
    \/ \E t \in Threads : Request(t) \/ FilesStep(t) \/ Redirect(t)
    \/ Download \/ Change \/ Remove \/ FilesCrash
    \/ (Tick \/ Midnight) /\ UNCHANGED fileVars

\* As in HttpBudget: threads run on, requests end and sleeps do.
FilesSpec ==
    /\ FilesInit /\ [][FilesNext]_allVars
    /\ WF_allVars(Tick /\ UNCHANGED fileVars)
    /\ \A t \in Threads : WF_allVars(FilesStep(t))
-----------------------------------------------------------------------------
\* A download that returns, with a new body or with modified=False, leaves the file at the
\* version the server answered for, though that goes back and forth (http.py:326-331): the
\* sidecar vouches for no content the file does not have, whatever failed or was cut short
\* in earlier downloads, save between the move of the file and the write of its sidecar.
\* There the old sidecar stays with the new file, until a download writes another.
UnchangedIsCurrent == told # 0 /\ ~ torn => dest = told
=============================================================================
