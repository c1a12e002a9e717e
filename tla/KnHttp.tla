------------------------------- MODULE KnHttp -------------------------------
(***************************************************************************)
(* jni/http.c and jni/extern/http.h: non-blocking HTTP requests.  A script *)
(* holds a handle (a knHttpContext userdata), asks for its status once per *)
(* frame and releases it.  Every call runs to its end on the Lua thread;   *)
(* between two calls the kernel and the server go on: connections open or  *)
(* are refused, segments arrive, the peer closes or resets.                *)
(*                                                                         *)
(* A response is a row of segments: the first HeaderSegments hold the      *)
(* status line (in the first) and the headers, the others the body.  Sizes *)
(* are counted in segments.                                                *)
(***************************************************************************)
EXTENDS Integers, FiniteSets

CONSTANTS Handles,         \* userdata of the script
          Descriptors,     \* file descriptors that are free for sockets
          Codes,           \* HTTP status codes the server may answer
          HeaderSegments, Segments,
          SizeModulus,     \* 2^w for the w bits of size_t
          NoSocket,
          EarlyClose,      \* may the server close before the end of its answer?
          PartialSend,     \* may send take a part of the bytes only?
          StaleHeap        \* may malloc return a block of an earlier response?

ASSUME HttpAssumption ==
    /\ Codes \subseteq Nat \ {0} /\ Descriptors \subseteq Nat
    /\ HeaderSegments \in Nat \ {0} /\ Segments \in Nat /\ HeaderSegments <= Segments
    /\ SizeModulus \in Nat /\ SizeModulus > Segments
    /\ NoSocket \notin Descriptors
    /\ {EarlyClose, PartialSend, StaleHeap} \subseteq BOOLEAN

VARIABLES
    context,          \* of a handle: "unused", "live", or "null" once released
    socket, status, connect_pending, request_sent,       \* http_internal_t
    data_size, status_code, response_size,
    stale,            \* segments of an older response that follow data_size
    conn,             \* kernel: state of the connection of a descriptor
    so_error,         \* kernel: is an error stored in the socket?
    queued, sent,     \* kernel: segments not yet read; segments the server sent
    request,          \* server: how much of the request it got
    code,             \* server: the code it answers with
    freed,            \* the heap: segments left in a freed response buffer
    crashed           \* the process is gone

handleVars == <<context, socket, status, connect_pending, request_sent,
                data_size, status_code, response_size, stale>>
kernelVars == <<conn, so_error, queued, sent, request, code>>
vars == <<handleVars, kernelVars, freed, crashed>>

NotHttp == 0     \* the server's answer has no status line that can be parsed

Status == {"PENDING", "COMPLETED", "FAILED"}

Live(h) == context[h] = "live"
Final(h) == Live(h) /\ status[h] # "PENDING"

------------------------------------------------------------------------------
Init ==
    /\ context = [h \in Handles |-> "unused"]
    /\ socket = [h \in Handles |-> NoSocket]
    /\ status = [h \in Handles |-> "PENDING"]
    /\ connect_pending = [h \in Handles |-> TRUE]
    /\ request_sent = [h \in Handles |-> FALSE]
    /\ data_size = [h \in Handles |-> 0]
    /\ status_code = [h \in Handles |-> 0]
    /\ response_size = [h \in Handles |-> 0]
    /\ stale = [h \in Handles |-> 0]
    /\ conn = [f \in Descriptors |-> "closed"]
    /\ so_error = [f \in Descriptors |-> FALSE]
    /\ queued = [f \in Descriptors |-> 0]
    /\ sent = [f \in Descriptors |-> 0]
    /\ request = [f \in Descriptors |-> "none"]
    /\ code = [f \in Descriptors |-> 0]
    /\ freed = 0
    /\ crashed = FALSE

(***************************************************************************)
(* The kernel and the server.                                              *)
(***************************************************************************)
Connected(f) ==
    /\ ~crashed /\ conn[f] = "connecting"
    /\ conn' = [conn EXCEPT ![f] = "up"]
    /\ UNCHANGED <<handleVars, so_error, queued, sent, request, code, freed, crashed>>

\* Refused, unreachable or timed out while connecting; reset later.
Fails(f) ==
    /\ ~crashed /\ conn[f] \in {"connecting", "up"}
    /\ conn' = [conn EXCEPT ![f] = "dead"]
    /\ so_error' = [so_error EXCEPT ![f] = TRUE]
    /\ UNCHANGED <<handleVars, queued, sent, request, code, freed, crashed>>

\* The server answers when it has the whole request.
ServerSends(f) ==
    /\ ~crashed /\ conn[f] = "up" /\ request[f] = "whole" /\ sent[f] < Segments
    /\ sent' = [sent EXCEPT ![f] = @ + 1]
    /\ queued' = [queued EXCEPT ![f] = @ + 1]
    /\ \E c \in IF sent[f] = 0 THEN Codes \cup {NotHttp} ELSE {code[f]} :
          code' = [code EXCEPT ![f] = c]
    /\ UNCHANGED <<handleVars, conn, so_error, request, freed, crashed>>

\* HTTP/1.0: closing the connection ends the answer.
ServerCloses(f) ==
    /\ ~crashed /\ conn[f] = "up"
    /\ sent[f] < Segments => EarlyClose
    /\ conn' = [conn EXCEPT ![f] = "eof"]
    /\ UNCHANGED <<handleVars, so_error, queued, sent, request, code, freed, crashed>>

(***************************************************************************)
(* knHttpRequest.  An address that does not parse or resolve gives nil and *)
(* leaves nothing behind.                                                  *)
(***************************************************************************)
FreeDescriptors == {f \in Descriptors : conn[f] = "closed"}

\* The fields that http_internal_create sets, and those of memory that is freed.
Fresh(h) ==
    /\ status' = [status EXCEPT ![h] = "PENDING"]
    /\ connect_pending' = [connect_pending EXCEPT ![h] = TRUE]
    /\ request_sent' = [request_sent EXCEPT ![h] = FALSE]
    /\ data_size' = [data_size EXCEPT ![h] = 0]
    /\ status_code' = [status_code EXCEPT ![h] = 0]
    /\ response_size' = [response_size EXCEPT ![h] = 0]

knHttpRequest(h) ==
    /\ ~crashed /\ context[h] # "live"
    /\ \E f \in FreeDescriptors :
          /\ \A g \in FreeDescriptors : f <= g      \* the kernel gives the lowest
          /\ socket' = [socket EXCEPT ![h] = f]
          /\ conn' = [conn EXCEPT ![f] = "connecting"]
    /\ context' = [context EXCEPT ![h] = "live"]
    /\ Fresh(h)
    /\ \/ stale' = [stale EXCEPT ![h] = 0] /\ UNCHANGED freed
       \/ /\ StaleHeap /\ freed # 0
          /\ stale' = [stale EXCEPT ![h] = freed] /\ freed' = 0
    /\ UNCHANGED <<so_error, queued, sent, request, code, crashed>>

(***************************************************************************)
(* knHttpUpdate, which is http_process.  It changes nothing while the      *)
(* connection is being made, while there is nothing to read, and once the  *)
(* request has failed.                                                     *)
(***************************************************************************)
Processes(h) == ~crashed /\ Live(h) /\ status[h] # "FAILED"

\* getsockopt hands out the stored error and clears it; the request stays pending.
TakeError(h) ==
    /\ Processes(h) /\ connect_pending[h]
    /\ LET f == socket[h]
       IN  conn[f] # "connecting" /\ so_error[f] /\ so_error' = [so_error EXCEPT ![f] = FALSE]
    /\ UNCHANGED <<handleVars, conn, queued, sent, request, code, freed, crashed>>

SendRequest(h) ==
    LET f == socket[h]
    IN  /\ Processes(h) /\ ~request_sent[h]
        /\ conn[f] # "connecting" /\ ~so_error[f]
        /\ connect_pending' = [connect_pending EXCEPT ![h] = FALSE]
        /\ \/ /\ conn[f] = "dead"
              /\ status' = [status EXCEPT ![h] = "FAILED"]
              /\ UNCHANGED <<request_sent, request>>
           \/ /\ conn[f] # "dead"
              /\ request_sent' = [request_sent EXCEPT ![h] = TRUE]
              /\ \/ request' = [request EXCEPT ![f] = "whole"]
                 \/ PartialSend /\ request' = [request EXCEPT ![f] = "part"]
              /\ UNCHANGED status
        /\ UNCHANGED <<context, socket, data_size, status_code, response_size, stale,
                       conn, so_error, queued, sent, code, freed, crashed>>

\* Mutant: the header is taken off the size each time the end is read.
ParseTwice(h, n) ==
    LET visible == IF n < stale[h] THEN stale[h] ELSE n
    IN  \/ /\ visible < HeaderSegments \/ code[socket[h]] = NotHttp
           /\ status' = [status EXCEPT ![h] = "FAILED"]
           /\ UNCHANGED <<status_code, response_size>>
        \/ /\ visible >= HeaderSegments /\ code[socket[h]] # NotHttp
           /\ status_code' = [status_code EXCEPT ![h] = code[socket[h]]]
           /\ status' = [status EXCEPT ![h] = "COMPLETED"]
           /\ response_size' =
                 [response_size EXCEPT ![h] =
                     ((IF status[h] = "COMPLETED" THEN response_size[h] ELSE n) - HeaderSegments)
                        % SizeModulus]

\* The end of the header is searched for in the block, not in what was received;
\* a code comes from the first segment, the server's or the older one.
Parse(h, n) ==
    LET visible == IF n < stale[h] THEN stale[h] ELSE n
    IN  \/ /\ visible < HeaderSegments \/ (n > 0 /\ code[socket[h]] = NotHttp)
           /\ status' = [status EXCEPT ![h] = "FAILED"]
           /\ UNCHANGED <<status_code, response_size>>
        \/ /\ visible >= HeaderSegments
           /\ \E c \in IF n > 0 THEN {code[socket[h]]} \ {NotHttp}
                      ELSE IF status_code[h] = 0 THEN Codes ELSE {status_code[h]} :
                 /\ status_code' = [status_code EXCEPT ![h] = c]
                 /\ status' = [status EXCEPT ![h] = IF c < 300 THEN "COMPLETED" ELSE "FAILED"]
           /\ response_size' =
                 [response_size EXCEPT ![h] = (n - HeaderSegments) % SizeModulus]

\* Mutants: the answer is taken for complete when there is nothing left to read;
\* the end of the stream is noticed only together with data.
ReceiveEarly(h) ==
    LET f == socket[h]
        n == data_size[h] + queued[f]
    IN  /\ Processes(h) /\ request_sent[h]
        /\ queued[f] > 0
        /\ data_size' = [data_size EXCEPT ![h] = n]
        /\ queued' = [queued EXCEPT ![f] = 0]
        /\ Parse(h, n)
        /\ UNCHANGED <<context, socket, connect_pending, request_sent, stale, so_error,
                       conn, sent, request, code, freed, crashed>>

ReceiveNeedsData(h) ==
    LET f == socket[h]
        n == data_size[h] + queued[f]
    IN  /\ Processes(h) /\ request_sent[h] /\ queued[f] > 0
        /\ data_size' = [data_size EXCEPT ![h] = n]
        /\ queued' = [queued EXCEPT ![f] = 0]
        /\ IF conn[f] = "up" THEN UNCHANGED <<status, status_code, response_size>>
           ELSE IF conn[f] = "eof" THEN Parse(h, n)
           ELSE status' = [status EXCEPT ![h] = "FAILED"] /\ UNCHANGED <<status_code, response_size>>
        /\ UNCHANGED <<context, socket, connect_pending, request_sent, stale, so_error,
                       conn, sent, request, code, freed, crashed>>

\* Reads until there is nothing to read, an error, or the end of the stream.
Receive(h) ==
    LET f == socket[h]
        n == data_size[h] + queued[f]
    IN  /\ Processes(h) /\ request_sent[h]
        /\ queued[f] > 0 \/ conn[f] # "up"
        /\ data_size' = [data_size EXCEPT ![h] = n]
        /\ queued' = [queued EXCEPT ![f] = 0]
        /\ \/ conn[f] = "up" /\ UNCHANGED <<status, status_code, response_size, so_error>>
           \/ /\ conn[f] = "dead"
              /\ status' = [status EXCEPT ![h] = "FAILED"]
              /\ so_error' = [so_error EXCEPT ![f] = FALSE]
              /\ UNCHANGED <<status_code, response_size>>
           \/ conn[f] = "eof" /\ Parse(h, n) /\ UNCHANGED so_error
        /\ UNCHANGED <<context, socket, connect_pending, request_sent, stale,
                       conn, sent, request, code, freed, crashed>>

knHttpUpdate(h) == TakeError(h) \/ SendRequest(h) \/ Receive(h)

(***************************************************************************)
(* knHttpRelease.  The block of the response goes back to the heap as it   *)
(* is; whoever gets it next may find the old response in it, of which only *)
(* a whole header matters (Parse).  A handle that is released already has  *)
(* a NULL context, which http_release reads.                               *)
(***************************************************************************)
\* Mutant: the context is not set to NULL.
ReleaseKeepsContext(h) ==
    /\ ~crashed /\ Live(h)
    /\ LET f == socket[h]
       IN  /\ conn' = [conn EXCEPT ![f] = "closed"]
           /\ so_error' = [so_error EXCEPT ![f] = FALSE]
           /\ queued' = [queued EXCEPT ![f] = 0]
           /\ sent' = [sent EXCEPT ![f] = 0]
           /\ request' = [request EXCEPT ![f] = "none"]
           /\ code' = [code EXCEPT ![f] = 0]
    /\ UNCHANGED <<handleVars, freed, crashed>>

knHttpRelease(h) ==
    /\ ~crashed /\ Live(h)
    /\ LET f == socket[h]
       IN  /\ conn' = [conn EXCEPT ![f] = "closed"]
           /\ so_error' = [so_error EXCEPT ![f] = FALSE]
           /\ queued' = [queued EXCEPT ![f] = 0]
           /\ sent' = [sent EXCEPT ![f] = 0]
           /\ request' = [request EXCEPT ![f] = "none"]
           /\ code' = [code EXCEPT ![f] = 0]
    /\ context' = [context EXCEPT ![h] = "null"]
    /\ socket' = [socket EXCEPT ![h] = NoSocket]
    /\ Fresh(h)
    /\ stale' = [stale EXCEPT ![h] = 0]
    /\ freed' = IF StaleHeap /\ data_size[h] >= HeaderSegments THEN HeaderSegments ELSE 0
    /\ UNCHANGED crashed

ReleaseAgain(h) ==
    /\ ~crashed /\ context[h] = "null"
    /\ crashed' = TRUE
    /\ UNCHANGED <<handleVars, kernelVars, freed>>

Next ==
    \/ \E h \in Handles : knHttpRequest(h) \/ knHttpUpdate(h) \/ knHttpRelease(h) \/ ReleaseAgain(h)
    \/ \E f \in Descriptors : Connected(f) \/ Fails(f) \/ ServerSends(f) \/ ServerCloses(f)

\* The script asks for the status of a request in every frame, as it is told to;
\* a connection attempt ends, and a server that got the request answers and closes.
Fairness ==
    /\ \A h \in Handles : WF_vars(knHttpUpdate(h))
    /\ \A f \in Descriptors : /\ WF_vars(Connected(f) \/ Fails(f))
                              /\ WF_vars(ServerSends(f))
                              /\ WF_vars(ServerCloses(f))

Spec == Init /\ [][Next]_vars /\ Fairness

------------------------------------------------------------------------------
\* Every descriptor that is open belongs to exactly one live handle, and a live
\* handle's descriptor is open: nothing leaks, and a number that the kernel has
\* given out again is never read, written or closed through the old handle.
DescriptorsOwned ==
    /\ \A h \in Handles : Live(h) => socket[h] \in Descriptors \ FreeDescriptors
    /\ \A g, h \in Handles : Live(g) /\ Live(h) /\ socket[g] = socket[h] => g = h
    /\ \A f \in Descriptors \ FreeDescriptors : \E h \in Handles : Live(h) /\ socket[h] = f

\* KN_HTTP_DONE is reported when the server has closed and every segment that it sent
\* has been read (all of its answer, if it never closes early).  The code is the one that
\* it sent, if it sent anything.  If it sent a whole header, the body is what came after
\* that, whatever the block held before; a request can only be done without one if an
\* older response left a header in the block.
DoneMeansAll ==
    \A h \in Handles : Live(h) /\ status[h] = "COMPLETED" =>
        LET f == socket[h]
        IN  /\ conn[f] = "eof" /\ queued[f] = 0
            /\ data_size[h] = sent[f]
            /\ sent[f] = Segments \/ EarlyClose
            /\ sent[f] > 0 => status_code[h] = code[f]
            /\ IF sent[f] >= HeaderSegments THEN response_size[h] + HeaderSegments = sent[f]
                                            ELSE stale[h] >= HeaderSegments

\* The response lies in the data that was received ("response_data is the pointer
\* to the received data, and resonse_size is the number of bytes it contains").
ResponseReceived ==
    \A h \in Handles : Live(h) /\ status[h] = "COMPLETED" => response_size[h] <= data_size[h]

\* Once a request is done or in error, asking again gives the same answer, however
\* often the script asks and whatever the peer does to the connection.
StatusStable ==
    [][\A h \in Handles : Final(h) /\ Live(h)' =>
          UNCHANGED <<status[h], status_code[h], response_size[h]>>]_vars

\* A request that is asked about often enough is done or in error at last.
EventuallyFinishes ==
    \A h \in Handles : Live(h) /\ status[h] = "PENDING"
                       ~> status[h] # "PENDING" \/ ~Live(h) \/ crashed
==============================================================================
