---------------------------- MODULE KnHttpProofs ----------------------------
(***************************************************************************)
(* Theorems about KnHttp, for any number of handles and descriptors, any   *)
(* codes and any sizes: descriptors are owned, a request that is done has  *)
(* read all that was sent, and a final status stays.                       *)
(***************************************************************************)
EXTENDS KnHttp, TLAPS

TypeOK ==
    /\ context \in [Handles -> {"unused", "live", "null"}]
    /\ socket \in [Handles -> Descriptors \cup {NoSocket}]
    /\ status \in [Handles -> Status]
    /\ connect_pending \in [Handles -> BOOLEAN]
    /\ request_sent \in [Handles -> BOOLEAN]
    /\ data_size \in [Handles -> Nat]
    /\ status_code \in [Handles -> Nat]
    /\ response_size \in [Handles -> Int]
    /\ stale \in [Handles -> Nat]
    /\ conn \in [Descriptors -> {"closed", "connecting", "up", "eof", "dead"}]
    /\ so_error \in [Descriptors -> BOOLEAN]
    /\ queued \in [Descriptors -> Nat]
    /\ sent \in [Descriptors -> Nat]
    /\ request \in [Descriptors -> {"none", "part", "whole"}]
    /\ code \in [Descriptors -> Nat]
    /\ freed \in Nat

\* A descriptor that was not used yet has no data; the server sends at most one
\* whole answer, and only if it has the request.
KernelInv ==
    \A f \in Descriptors :
        /\ conn[f] \in {"closed", "connecting"} => request[f] = "none"
        /\ request[f] = "none" => queued[f] = 0 /\ sent[f] = 0
        /\ sent[f] <= Segments
        /\ conn[f] = "eof" => sent[f] = Segments \/ EarlyClose

\* What a live handle has received and what waits in the kernel is what the
\* server has sent.
ReceivedInv ==
    \A h \in Handles : Live(h) =>
        /\ socket[h] \in Descriptors
        /\ data_size[h] + queued[socket[h]] = sent[socket[h]]
        /\ request_sent[h] <=> request[socket[h]] # "none"

\* What http_process has found out about an answer that it reports as whole.
CompleteInv ==
    \A h \in Handles : Live(h) /\ status[h] = "COMPLETED" =>
        /\ request_sent[h]
        /\ conn[socket[h]] = "eof" /\ queued[socket[h]] = 0
        /\ data_size[h] >= HeaderSegments \/ stale[h] >= HeaderSegments
        /\ response_size[h] = (data_size[h] - HeaderSegments) % SizeModulus
        /\ status_code[h] # NotHttp /\ status_code[h] < 300
        /\ data_size[h] > 0 => status_code[h] = code[socket[h]]

IInv == TypeOK /\ DescriptorsOwned /\ KernelInv /\ ReceivedInv /\ CompleteInv

LEMMA InitSound == Init => IInv
<1> SUFFICES ASSUME Init PROVE IInv
  OBVIOUS
<1>1. TypeOK
  BY DEF Init, TypeOK, Status
<1>2. DescriptorsOwned
  BY DEF Init, DescriptorsOwned, Live, FreeDescriptors
<1>3. KernelInv
  BY HttpAssumption DEF Init, KernelInv
<1>4. ReceivedInv /\ CompleteInv
  BY DEF Init, ReceivedInv, CompleteInv, Live
<1>5. QED BY <1>1, <1>2, <1>3, <1>4 DEF IInv

\* Arithmetic of size_t.
LEMMA RemainderOfSmall ==
    ASSUME NEW m \in Nat, NEW a \in 0..(m - 1)
    PROVE  a % m = a
OBVIOUS

LEMMA RemainderIsInt ==
    ASSUME NEW a \in Int
    PROVE  a % SizeModulus \in Int
BY HttpAssumption

\* The kernel and the server touch neither handles nor the owner of a descriptor.
LEMMA WorldSound ==
    ASSUME IInv, NEW f \in Descriptors,
           Connected(f) \/ Fails(f) \/ ServerSends(f) \/ ServerCloses(f)
    PROVE  IInv'
<1>1. UNCHANGED <<context, socket, status, connect_pending, request_sent, data_size,
                  status_code, response_size, stale, request, freed, crashed>>
  BY DEF Connected, Fails, ServerSends, ServerCloses, handleVars
<1>2. /\ conn[f] \in {"connecting", "up"}
      /\ \E c \in {"up", "eof", "dead"} : conn' = [conn EXCEPT ![f] = c]
      /\ conn[f] = "connecting" => \E c \in {"up", "dead"} : conn' = [conn EXCEPT ![f] = c]
  BY DEF Connected, Fails, ServerSends, ServerCloses, IInv, TypeOK
<1>3. \/ UNCHANGED <<queued, sent, code>>
      \/ /\ request[f] = "whole" /\ sent[f] < Segments /\ conn[f] = "up"
         /\ sent' = [sent EXCEPT ![f] = @ + 1]
         /\ queued' = [queued EXCEPT ![f] = @ + 1]
         /\ \E c \in Nat : code' = [code EXCEPT ![f] = c]
  <2>1. CASE ServerSends(f)
    <3>1. (IF sent[f] = 0 THEN Codes \cup {NotHttp} ELSE {code[f]}) \subseteq Nat
      <4>1. code[f] \in Nat
        BY DEF IInv, TypeOK
      <4>2. Codes \subseteq Nat /\ NotHttp \in Nat
        BY HttpAssumption DEF NotHttp
      <4>3. QED BY <4>1, <4>2
    <3>2. QED BY <2>1, <3>1 DEF ServerSends
  <2>2. QED BY <2>1 DEF Connected, Fails, ServerCloses
<1>4. so_error' \in [Descriptors -> BOOLEAN]
  BY DEF Connected, Fails, ServerSends, ServerCloses, IInv, TypeOK
<1>5. TypeOK'
  <2>1. conn' \in [Descriptors -> {"closed", "connecting", "up", "eof", "dead"}]
    BY <1>2 DEF IInv, TypeOK
  <2>2. queued' \in [Descriptors -> Nat] /\ sent' \in [Descriptors -> Nat] /\ code' \in [Descriptors -> Nat]
    BY <1>3 DEF IInv, TypeOK
  <2>3. QED BY <1>1, <1>4, <2>1, <2>2 DEF IInv, TypeOK
<1>6. DescriptorsOwned'
  <2>1. FreeDescriptors' = FreeDescriptors
    BY <1>2 DEF FreeDescriptors, IInv, TypeOK
  <2>2. QED BY <1>1, <2>1 DEF DescriptorsOwned, Live, IInv
<1>7. KernelInv'
  <2>1. \A g \in Descriptors :
          /\ conn'[g] \in {"closed", "connecting"} => request'[g] = "none"
          /\ request'[g] = "none" => queued'[g] = 0 /\ sent'[g] = 0
          /\ sent'[g] <= Segments
    BY <1>1, <1>2, <1>3, HttpAssumption DEF IInv, TypeOK, KernelInv
  <2>2. ASSUME NEW g \in Descriptors, conn'[g] = "eof"
        PROVE  sent'[g] = Segments \/ EarlyClose
    <3>1. CASE conn[g] = "eof"
      <4>1. sent'[g] = sent[g]
        BY <1>2, <1>3, <3>1 DEF IInv, TypeOK
      <4> QED BY <3>1, <4>1 DEF IInv, KernelInv
    <3>2. CASE conn[g] # "eof"
      <4>1. ServerCloses(f) /\ g = f
        BY <2>2, <3>2 DEF Connected, Fails, ServerSends, ServerCloses, IInv, TypeOK
      <4> QED BY <4>1, HttpAssumption DEF ServerCloses, IInv, TypeOK, KernelInv
    <3> QED BY <3>1, <3>2
  <2> QED BY <2>1, <2>2 DEF KernelInv
<1>8. ReceivedInv'
  BY <1>1, <1>3 DEF IInv, TypeOK, ReceivedInv, Live
<1>9. CompleteInv'
  <2> SUFFICES ASSUME NEW h \in Handles, Live(h)', status'[h] = "COMPLETED"
               PROVE  /\ conn'[socket'[h]] = "eof" /\ queued'[socket'[h]] = 0
                      /\ code'[socket'[h]] = code[socket[h]]
    BY <1>1 DEF IInv, CompleteInv, Live
  <2>1. Live(h) /\ status[h] = "COMPLETED" /\ socket'[h] = socket[h] /\ socket[h] \in Descriptors
    BY <1>1 DEF IInv, ReceivedInv, Live
  <2>2. conn[socket[h]] = "eof" /\ queued[socket[h]] = 0
    BY <2>1 DEF IInv, CompleteInv
  <2>3. socket[h] # f
    BY <1>2, <2>2
  <2>4. QED BY <1>2, <1>3, <2>1, <2>2, <2>3 DEF IInv, TypeOK
<1>10. QED BY <1>5, <1>6, <1>7, <1>8, <1>9 DEF IInv

\* A new request takes a descriptor that nobody has.
LEMMA RequestSound ==
    ASSUME IInv, NEW h \in Handles, knHttpRequest(h)
    PROVE  IInv'
<1>1. PICK f \in FreeDescriptors : /\ socket' = [socket EXCEPT ![h] = f]
                                   /\ conn' = [conn EXCEPT ![f] = "connecting"]
  BY DEF knHttpRequest
<1>2. f \in Descriptors /\ conn[f] = "closed"
  BY DEF FreeDescriptors
<1>3. /\ ~Live(h) /\ context' = [context EXCEPT ![h] = "live"]
      /\ status' = [status EXCEPT ![h] = "PENDING"]
      /\ connect_pending' = [connect_pending EXCEPT ![h] = TRUE]
      /\ request_sent' = [request_sent EXCEPT ![h] = FALSE]
      /\ data_size' = [data_size EXCEPT ![h] = 0]
      /\ status_code' = [status_code EXCEPT ![h] = 0]
      /\ response_size' = [response_size EXCEPT ![h] = 0]
      /\ UNCHANGED <<so_error, queued, sent, request, code, crashed>>
  BY DEF knHttpRequest, Fresh, Live
<1>4. freed' \in Nat /\ \E n \in Nat : stale' = [stale EXCEPT ![h] = n]
  BY DEF knHttpRequest, IInv, TypeOK
<1>5. request[f] = "none" /\ queued[f] = 0 /\ sent[f] = 0
  BY <1>2 DEF IInv, KernelInv
<1>6. \A g \in Handles : Live(g) => g # h /\ socket[g] \in Descriptors /\ socket[g] # f
  BY <1>2, <1>3 DEF IInv, DescriptorsOwned, FreeDescriptors
<1>7. \A g \in Handles : Live(g)' <=> (g = h \/ Live(g))
  BY <1>3 DEF Live, IInv, TypeOK
<1>8. TypeOK'
  BY <1>1, <1>2, <1>3, <1>4 DEF IInv, TypeOK, Status
<1>9. FreeDescriptors' = FreeDescriptors \ {f}
  BY <1>1, <1>2 DEF FreeDescriptors, IInv, TypeOK
<1>10. DescriptorsOwned'
  <2>1. \A g \in Handles : socket'[g] = IF g = h THEN f ELSE socket[g]
    BY <1>1 DEF IInv, TypeOK
  <2>2. QED BY <1>2, <1>6, <1>7, <1>9, <2>1 DEF DescriptorsOwned, IInv
<1>11. KernelInv'
  BY <1>1, <1>2, <1>3, <1>5 DEF IInv, TypeOK, KernelInv
<1>12. ReceivedInv'
  BY <1>1, <1>2, <1>3, <1>5, <1>6, <1>7 DEF IInv, TypeOK, ReceivedInv
<1>13. CompleteInv'
  BY <1>1, <1>2, <1>3, <1>4, <1>6, <1>7 DEF IInv, TypeOK, CompleteInv
<1>14. QED BY <1>8, <1>10, <1>11, <1>12, <1>13 DEF IInv

\* TakeError and SendRequest.
LEMMA SendSound ==
    ASSUME IInv, NEW h \in Handles, TakeError(h) \/ SendRequest(h)
    PROVE  IInv'
<1> DEFINE f == socket[h]
<1>1. /\ Live(h) /\ f \in Descriptors
      /\ UNCHANGED <<context, socket, data_size, status_code, response_size, stale,
                     conn, queued, sent, code, freed, crashed>>
  BY DEF TakeError, SendRequest, Processes, IInv, ReceivedInv, handleVars
<1>2. \A g \in Handles : Live(g)' <=> Live(g)
  BY <1>1 DEF Live
<1>3. DescriptorsOwned'
  BY <1>1, <1>2 DEF DescriptorsOwned, FreeDescriptors, IInv
<1>4. CASE TakeError(h)
  <2>1. /\ UNCHANGED <<status, connect_pending, request_sent, request>>
        /\ so_error' = [so_error EXCEPT ![f] = FALSE]
    BY <1>4 DEF TakeError, handleVars
  <2>2. TypeOK'
    BY <1>1, <2>1 DEF IInv, TypeOK
  <2>3. KernelInv' /\ ReceivedInv' /\ CompleteInv'
    BY <1>1, <1>2, <2>1 DEF IInv, KernelInv, ReceivedInv, CompleteInv
  <2>4. QED BY <1>3, <2>2, <2>3 DEF IInv
<1>5. CASE SendRequest(h)
  <2>1. /\ ~request_sent[h] /\ conn[f] # "connecting"
        /\ connect_pending' = [connect_pending EXCEPT ![h] = FALSE]
        /\ UNCHANGED so_error
    BY <1>5 DEF SendRequest
  <2>2. \/ /\ status' = [status EXCEPT ![h] = "FAILED"]
            /\ UNCHANGED <<request_sent, request>>
        \/ /\ request_sent' = [request_sent EXCEPT ![h] = TRUE]
            /\ \E r \in {"part", "whole"} : request' = [request EXCEPT ![f] = r]
            /\ UNCHANGED status
    BY <1>5 DEF SendRequest
  <2>3. conn[f] \notin {"closed", "connecting"} /\ status[h] # "COMPLETED"
    BY <1>1, <2>1 DEF IInv, DescriptorsOwned, FreeDescriptors, CompleteInv
  <2>4. \A g \in Handles : Live(g) /\ g # h => socket[g] # f
    BY <1>1 DEF IInv, DescriptorsOwned
  <2>5. TypeOK'
    <3>1. status' \in [Handles -> Status] /\ request_sent' \in [Handles -> BOOLEAN]
      BY <2>2, ZenonT(30) DEF IInv, TypeOK, Status
    <3>2. request' \in [Descriptors -> {"none", "part", "whole"}]
      BY <2>2 DEF IInv, TypeOK
    <3>3. connect_pending' \in [Handles -> BOOLEAN]
      BY <2>1 DEF IInv, TypeOK
    <3>4. QED BY <1>1, <2>1, <3>1, <3>2, <3>3 DEF IInv, TypeOK
  <2>6. KernelInv'
    BY <1>1, <2>2, <2>3 DEF IInv, TypeOK, KernelInv
  <2>7. ReceivedInv'
    BY <1>1, <1>2, <2>1, <2>2, <2>4 DEF IInv, TypeOK, ReceivedInv
  <2>8. CompleteInv'
    BY <1>1, <1>2, <2>2, <2>3 DEF IInv, TypeOK, CompleteInv
  <2>9. QED BY <1>3, <2>5, <2>6, <2>7, <2>8 DEF IInv
<1>6. QED BY <1>4, <1>5

\* What Parse says of an answer of n segments.
LEMMA ParseResult ==
    ASSUME IInv, NEW h \in Handles, NEW n \in Nat, Parse(h, n), Live(h)
    PROVE  /\ \E c \in Nat : status_code' = [status_code EXCEPT ![h] = c]
           /\ \E c \in Int : response_size' = [response_size EXCEPT ![h] = c]
           /\ \E c \in {"COMPLETED", "FAILED"} : status' = [status EXCEPT ![h] = c]
           /\ status'[h] = "COMPLETED" =>
                 /\ n >= HeaderSegments \/ stale[h] >= HeaderSegments
                 /\ response_size'[h] = (n - HeaderSegments) % SizeModulus
                 /\ status_code'[h] # NotHttp /\ status_code'[h] < 300
                 /\ n > 0 => status_code'[h] = code[socket[h]]
<1> DEFINE visible == IF n < stale[h] THEN stale[h] ELSE n
<1>1. CASE /\ status' = [status EXCEPT ![h] = "FAILED"]
           /\ UNCHANGED <<status_code, response_size>>
  <2>1. status_code' = [status_code EXCEPT ![h] = status_code[h]] /\ status_code[h] \in Nat
    BY <1>1 DEF IInv, TypeOK
  <2>2. response_size' = [response_size EXCEPT ![h] = response_size[h]] /\ response_size[h] \in Int
    BY <1>1 DEF IInv, TypeOK
  <2>3. status'[h] # "COMPLETED"
    BY <1>1 DEF IInv, TypeOK
  <2>4. \E c \in {"COMPLETED", "FAILED"} : status' = [status EXCEPT ![h] = c]
    BY <1>1
  <2>5. QED BY <2>1, <2>2, <2>3, <2>4
<1>2. CASE /\ visible >= HeaderSegments
           /\ \E c \in IF n > 0 THEN {code[socket[h]]} \ {NotHttp}
                        ELSE IF status_code[h] = 0 THEN Codes ELSE {status_code[h]} :
                 /\ status_code' = [status_code EXCEPT ![h] = c]
                 /\ status' = [status EXCEPT ![h] = IF c < 300 THEN "COMPLETED" ELSE "FAILED"]
           /\ response_size' = [response_size EXCEPT ![h] = (n - HeaderSegments) % SizeModulus]
  <2>1. PICK c \in IF n > 0 THEN {code[socket[h]]} \ {NotHttp}
                  ELSE IF status_code[h] = 0 THEN Codes ELSE {status_code[h]} :
             /\ status_code' = [status_code EXCEPT ![h] = c]
             /\ status' = [status EXCEPT ![h] = IF c < 300 THEN "COMPLETED" ELSE "FAILED"]
    BY <1>2
  <2>2. socket[h] \in Descriptors /\ code[socket[h]] \in Nat /\ status_code[h] \in Nat
    BY DEF IInv, TypeOK, ReceivedInv
  <2>3. c \in Nat /\ c # NotHttp /\ (n > 0 => c = code[socket[h]])
    BY <2>2, HttpAssumption DEF NotHttp
  <2>4. n - HeaderSegments \in Int /\ (n - HeaderSegments) % SizeModulus \in Int
    BY HttpAssumption, RemainderIsInt
  <2>5. /\ status_code'[h] = c /\ status'[h] = (IF c < 300 THEN "COMPLETED" ELSE "FAILED")
        /\ response_size'[h] = (n - HeaderSegments) % SizeModulus
    BY <1>2, <2>1 DEF IInv, TypeOK
  <2>6. n >= HeaderSegments \/ stale[h] >= HeaderSegments
    BY <1>2
  <2>7. (IF c < 300 THEN "COMPLETED" ELSE "FAILED") \in {"COMPLETED", "FAILED"}
    OBVIOUS
  <2>8. \E b \in {"COMPLETED", "FAILED"} : status' = [status EXCEPT ![h] = b]
    BY <2>1, <2>7, ZenonT(30)
  <2>9. (\E b \in Nat : status_code' = [status_code EXCEPT ![h] = b])
        /\ \E b \in Int : response_size' = [response_size EXCEPT ![h] = b]
    BY <1>2, <2>1, <2>3, <2>4, ZenonT(30)
  <2>10. QED BY <2>3, <2>5, <2>6, <2>8, <2>9, ZenonT(30)
<1>3. QED BY <1>1, <1>2 DEF Parse

\* Receive: the answer so far moves from the kernel to the buffer.
LEMMA ReceiveSound ==
    ASSUME IInv, NEW h \in Handles, Receive(h)
    PROVE  IInv'
<1> DEFINE f == socket[h]
           n == data_size[h] + queued[f]
<1>1. /\ Live(h) /\ request_sent[h] /\ f \in Descriptors /\ n \in Nat
      /\ data_size' = [data_size EXCEPT ![h] = n]
      /\ queued' = [queued EXCEPT ![f] = 0]
      /\ UNCHANGED <<context, socket, connect_pending, request_sent, stale,
                     conn, sent, request, code, freed, crashed>>
  BY DEF Receive, Processes, IInv, ReceivedInv, TypeOK
<1>2. /\ \E c \in Nat : status_code' = [status_code EXCEPT ![h] = c]
      /\ \E c \in Int : response_size' = [response_size EXCEPT ![h] = c]
      /\ \E c \in Status : status' = [status EXCEPT ![h] = c]
      /\ status'[h] = "COMPLETED" =>
            /\ conn[f] = "eof"
            /\ n >= HeaderSegments \/ stale[h] >= HeaderSegments
            /\ response_size'[h] = (n - HeaderSegments) % SizeModulus
            /\ status_code'[h] # NotHttp /\ status_code'[h] < 300
            /\ n > 0 => status_code'[h] = code[f]
  <2>1. CASE conn[f] = "eof" /\ Parse(h, n)
    BY <1>1, <2>1, ParseResult DEF Status
  <2>2. CASE conn[f] # "eof" /\ UNCHANGED <<status_code, response_size>>
             /\ (UNCHANGED status \/ status' = [status EXCEPT ![h] = "FAILED"])
    <3>1. status[h] # "COMPLETED" /\ status[h] \in Status
      BY <1>1, <2>2 DEF IInv, CompleteInv, TypeOK
    <3>2. /\ status_code[h] \in Nat /\ status_code' = [status_code EXCEPT ![h] = status_code[h]]
          /\ response_size[h] \in Int /\ response_size' = [response_size EXCEPT ![h] = response_size[h]]
          /\ \E c \in Status : c # "COMPLETED" /\ status' = [status EXCEPT ![h] = c]
      BY <2>2, <3>1 DEF IInv, TypeOK, Status
    <3>3. status'[h] # "COMPLETED"
      BY <3>2 DEF IInv, TypeOK
    <3>4. QED BY <3>2, <3>3
  <2>3. QED BY <2>1, <2>2 DEF Receive
<1>3. so_error' \in [Descriptors -> BOOLEAN]
  BY ZenonT(30) DEF Receive, IInv, TypeOK
<1>4. \A g \in Handles : Live(g)' <=> Live(g)
  BY <1>1 DEF Live
<1>5. \A g \in Handles : Live(g) /\ g # h => socket[g] # f
  BY <1>1 DEF IInv, DescriptorsOwned
<1>6. TypeOK'
  <2>1. status' \in [Handles -> Status]
    BY <1>2 DEF IInv, TypeOK
  <2>2. status_code' \in [Handles -> Nat] /\ response_size' \in [Handles -> Int]
    BY <1>2 DEF IInv, TypeOK
  <2>3. data_size' \in [Handles -> Nat] /\ queued' \in [Descriptors -> Nat]
    BY <1>1 DEF IInv, TypeOK
  <2>4. QED BY <1>1, <1>3, <2>1, <2>2, <2>3 DEF IInv, TypeOK
<1>7. DescriptorsOwned'
  BY <1>1, <1>4 DEF DescriptorsOwned, FreeDescriptors, IInv
<1>8. KernelInv'
  BY <1>1 DEF IInv, TypeOK, KernelInv
<1>9. ReceivedInv'
  BY <1>1, <1>4, <1>5 DEF IInv, TypeOK, ReceivedInv
<1>10. CompleteInv'
  <2> SUFFICES ASSUME NEW g \in Handles, Live(g), status'[g] = "COMPLETED"
               PROVE  /\ request_sent[g]
                      /\ conn[socket[g]] = "eof" /\ queued'[socket[g]] = 0
                      /\ data_size'[g] >= HeaderSegments \/ stale[g] >= HeaderSegments
                      /\ response_size'[g] = (data_size'[g] - HeaderSegments) % SizeModulus
                      /\ status_code'[g] # NotHttp /\ status_code'[g] < 300
                      /\ data_size'[g] > 0 => status_code'[g] = code[socket[g]]
    BY <1>1, <1>4 DEF CompleteInv
  <2>1. CASE g = h
    <3>1. data_size'[g] = n /\ queued'[socket[g]] = 0
      BY <1>1, <2>1 DEF IInv, TypeOK
    <3>2. QED BY <1>1, <1>2, <2>1, <3>1
  <2>2. CASE g # h
    <3>1. /\ status'[g] = status[g] /\ data_size'[g] = data_size[g]
          /\ response_size'[g] = response_size[g] /\ status_code'[g] = status_code[g]
      BY <1>1, <1>2, <2>2 DEF IInv, TypeOK
    <3>2. socket[g] \in Descriptors /\ queued'[socket[g]] = queued[socket[g]]
      BY <1>1, <1>5, <2>2 DEF IInv, TypeOK, ReceivedInv
    <3>3. QED BY <3>1, <3>2 DEF IInv, CompleteInv
  <2>3. QED BY <2>1, <2>2
<1>11. QED BY <1>6, <1>7, <1>8, <1>9, <1>10 DEF IInv

\* A release closes the descriptor of this handle and of no other.
LEMMA ReleaseSound ==
    ASSUME IInv, NEW h \in Handles, knHttpRelease(h)
    PROVE  IInv'
<1> DEFINE f == socket[h]
<1>1. /\ Live(h) /\ f \in Descriptors
      /\ conn' = [conn EXCEPT ![f] = "closed"]
      /\ so_error' = [so_error EXCEPT ![f] = FALSE]
      /\ queued' = [queued EXCEPT ![f] = 0]
      /\ sent' = [sent EXCEPT ![f] = 0]
      /\ request' = [request EXCEPT ![f] = "none"]
      /\ code' = [code EXCEPT ![f] = 0]
      /\ context' = [context EXCEPT ![h] = "null"]
      /\ socket' = [socket EXCEPT ![h] = NoSocket]
      /\ stale' = [stale EXCEPT ![h] = 0]
      /\ UNCHANGED crashed
  BY DEF knHttpRelease, IInv, ReceivedInv
<1>2. /\ status' = [status EXCEPT ![h] = "PENDING"]
      /\ connect_pending' = [connect_pending EXCEPT ![h] = TRUE]
      /\ request_sent' = [request_sent EXCEPT ![h] = FALSE]
      /\ data_size' = [data_size EXCEPT ![h] = 0]
      /\ status_code' = [status_code EXCEPT ![h] = 0]
      /\ response_size' = [response_size EXCEPT ![h] = 0]
      /\ freed' \in Nat
  BY HttpAssumption DEF knHttpRelease, Fresh
<1>3. \A g \in Handles : Live(g)' <=> (Live(g) /\ g # h)
  BY <1>1 DEF Live, IInv, TypeOK
<1>4. \A g \in Handles : Live(g) /\ g # h => socket[g] # f /\ socket'[g] = socket[g]
  BY <1>1 DEF IInv, DescriptorsOwned, TypeOK
<1>5. TypeOK'
  BY <1>1, <1>2 DEF IInv, TypeOK, Status
<1>6. DescriptorsOwned'
  <2>1. FreeDescriptors' = FreeDescriptors \cup {f}
    BY <1>1 DEF FreeDescriptors, IInv, TypeOK
  <2>2. \A g \in Handles : Live(g)' => socket'[g] \in Descriptors \ FreeDescriptors'
    BY <1>3, <1>4, <2>1 DEF IInv, DescriptorsOwned
  <2>3. \A g, k \in Handles : Live(g)' /\ Live(k)' /\ socket'[g] = socket'[k] => g = k
    BY <1>3, <1>4 DEF IInv, DescriptorsOwned
  <2>4. ASSUME NEW d \in Descriptors \ FreeDescriptors'
        PROVE  \E g \in Handles : Live(g)' /\ socket'[g] = d
    <3>1. PICK g \in Handles : Live(g) /\ socket[g] = d
      BY <2>1, <2>4 DEF IInv, DescriptorsOwned
    <3>2. g # h
      BY <2>1, <3>1
    <3>3. QED BY <1>3, <1>4, <3>1, <3>2
  <2>5. QED BY <2>2, <2>3, <2>4 DEF DescriptorsOwned
<1>7. KernelInv'
  BY <1>1, HttpAssumption DEF IInv, TypeOK, KernelInv
<1>8. ReceivedInv'
  BY <1>1, <1>2, <1>3, <1>4 DEF IInv, TypeOK, ReceivedInv
<1>9. CompleteInv'
  BY <1>1, <1>2, <1>3, <1>4 DEF IInv, TypeOK, CompleteInv, ReceivedInv
<1>10. QED BY <1>5, <1>6, <1>7, <1>8, <1>9 DEF IInv

\* Every step keeps the invariant.
LEMMA NextSound ==
    ASSUME IInv, [Next]_vars
    PROVE  IInv'
<1>1. ASSUME NEW h \in Handles, knHttpRequest(h)
      PROVE  IInv'
  BY <1>1, RequestSound
<1>2. ASSUME NEW h \in Handles, knHttpUpdate(h)
      PROVE  IInv'
  BY <1>2, SendSound, ReceiveSound DEF knHttpUpdate
<1>3. ASSUME NEW h \in Handles, knHttpRelease(h)
      PROVE  IInv'
  BY <1>3, ReleaseSound
<1>4. ASSUME NEW f \in Descriptors, Connected(f) \/ Fails(f) \/ ServerSends(f) \/ ServerCloses(f)
      PROVE  IInv'
  BY <1>4, WorldSound
<1>5. CASE UNCHANGED vars \/ \E h \in Handles : ReleaseAgain(h)
  <2>1. UNCHANGED <<handleVars, kernelVars, freed>>
    BY <1>5 DEF vars, ReleaseAgain
  <2>2. TypeOK'
    BY <2>1 DEF IInv, TypeOK, handleVars, kernelVars
  <2>3. DescriptorsOwned' /\ KernelInv' /\ ReceivedInv' /\ CompleteInv'
    BY <2>1 DEF IInv, DescriptorsOwned, KernelInv, ReceivedInv, CompleteInv, Live,
                FreeDescriptors, handleVars, kernelVars
  <2>4. QED BY <2>2, <2>3 DEF IInv
<1>6. QED BY <1>1, <1>2, <1>3, <1>4, <1>5 DEF Next

LEMMA AlwaysIInv == Spec => []IInv
BY InitSound, NextSound, PTL DEF Spec

\* Asking again for a finished answer parses it again, with the same result.
LEMMA UpdateKeepsFinal ==
    ASSUME IInv, NEW h \in Handles, Final(h), knHttpUpdate(h)
    PROVE  UNCHANGED <<status[h], status_code[h], response_size[h]>>
<1> DEFINE f == socket[h]
           n == data_size[h] + queued[f]
<1>1. /\ Live(h) /\ status[h] = "COMPLETED" /\ f \in Descriptors
      /\ request_sent[h] /\ conn[f] = "eof" /\ queued[f] = 0
      /\ data_size[h] >= HeaderSegments \/ stale[h] >= HeaderSegments
      /\ response_size[h] = (data_size[h] - HeaderSegments) % SizeModulus
      /\ status_code[h] # NotHttp /\ status_code[h] < 300
      /\ data_size[h] > 0 => status_code[h] = code[f]
      /\ data_size[h] \in Nat /\ stale[h] \in Nat /\ status_code[h] \in Nat
  <2>1. status[h] = "COMPLETED"
    BY DEF knHttpUpdate, TakeError, SendRequest, Receive, Processes, Final, IInv, TypeOK, Status
  <2>2. QED BY <2>1 DEF Final, IInv, CompleteInv, ReceivedInv, TypeOK
<1>2. CASE TakeError(h)
  BY <1>2 DEF TakeError, handleVars
<1>3. ~SendRequest(h)
  BY <1>1 DEF SendRequest
<1>4. CASE Receive(h)
  <2>1. Parse(h, n) /\ n = data_size[h]
    BY <1>1, <1>4 DEF Receive
  <2>2. HeaderSegments <= (IF n < stale[h] THEN stale[h] ELSE n)
    BY <1>1, <2>1, HttpAssumption
  <2>3. ~(n > 0 /\ code[f] = NotHttp)
    BY <1>1, <2>1
  <2>4. (IF n > 0 THEN {code[f]} \ {NotHttp}
         ELSE IF status_code[h] = 0 THEN Codes ELSE {status_code[h]}) = {status_code[h]}
    BY <1>1, <2>1 DEF NotHttp
  <2>5. ~((IF n < stale[h] THEN stale[h] ELSE n) < HeaderSegments)
    BY <1>1, <2>1, <2>2, HttpAssumption
  <2>6. /\ status_code' = [status_code EXCEPT ![h] = status_code[h]]
        /\ status' = [status EXCEPT ![h] = IF status_code[h] < 300 THEN "COMPLETED" ELSE "FAILED"]
        /\ response_size' = [response_size EXCEPT ![h] = (n - HeaderSegments) % SizeModulus]
    BY <2>1, <2>3, <2>4, <2>5 DEF Parse
  <2>7. QED BY <1>1, <2>1, <2>6 DEF IInv, TypeOK
<1>5. QED BY <1>2, <1>3, <1>4 DEF knHttpUpdate

\* Whatever the order of requests, releases and of what the kernel does: every
\* open descriptor has one live handle and every live handle its own descriptor.
THEOREM HandlesOwnDescriptors == Spec => []DescriptorsOwned
<1>1. IInv => DescriptorsOwned
  BY DEF IInv
<1>2. QED BY <1>1, AlwaysIInv, PTL

\* A request that is reported as done has read all that the server sent before it
\* closed, with the server's code, and has the body that follows the server's header; if
\* there was no whole header, it took one that an older response left behind.
THEOREM DoneHasAll == Spec => []DoneMeansAll
<1>1. ASSUME IInv PROVE DoneMeansAll
  <2> SUFFICES ASSUME NEW h \in Handles, Live(h), status[h] = "COMPLETED"
               PROVE  LET f == socket[h]
                      IN  /\ conn[f] = "eof" /\ queued[f] = 0
                          /\ data_size[h] = sent[f]
                          /\ sent[f] = Segments \/ EarlyClose
                          /\ sent[f] > 0 => status_code[h] = code[f]
                          /\ IF sent[f] >= HeaderSegments
                             THEN response_size[h] + HeaderSegments = sent[f]
                             ELSE stale[h] >= HeaderSegments
    BY DEF DoneMeansAll
  <2> DEFINE s == sent[socket[h]]
  <2>1. /\ conn[socket[h]] = "eof" /\ queued[socket[h]] = 0
        /\ data_size[h] >= HeaderSegments \/ stale[h] >= HeaderSegments
        /\ response_size[h] = (data_size[h] - HeaderSegments) % SizeModulus
        /\ data_size[h] > 0 => status_code[h] = code[socket[h]]
    BY <1>1 DEF IInv, CompleteInv
  <2>2. /\ socket[h] \in Descriptors /\ data_size[h] \in Nat /\ s \in Nat /\ s <= Segments
        /\ s = Segments \/ EarlyClose
    BY <1>1, <2>1 DEF IInv, ReceivedInv, KernelInv, TypeOK
  <2>3. data_size[h] = s
    BY <1>1, <2>1, <2>2 DEF IInv, ReceivedInv
  <2>4. CASE s >= HeaderSegments
    <3>1. s > 0 /\ s - HeaderSegments \in 0..(SizeModulus - 1)
      BY <2>2, <2>4, HttpAssumption
    <3>2. (s - HeaderSegments) % SizeModulus = s - HeaderSegments
      BY <3>1, RemainderOfSmall, HttpAssumption
    <3> QED BY <2>1, <2>2, <2>3, <2>4, <3>1, <3>2, HttpAssumption
  <2>5. CASE s < HeaderSegments
    BY <2>1, <2>2, <2>3, <2>5, HttpAssumption
  <2>6. QED BY <2>2, <2>4, <2>5, HttpAssumption
<1>2. QED BY <1>1, AlwaysIInv, PTL

\* Once a request is done or in error, it stays so, whatever the peer does.
THEOREM FinalStays == Spec => StatusStable
<1>1. ASSUME IInv, [Next]_vars, NEW h \in Handles, Final(h), Live(h)'
      PROVE  UNCHANGED <<status[h], status_code[h], response_size[h]>>
  <2>1. ASSUME NEW g \in Handles, knHttpRequest(g)
        PROVE  UNCHANGED <<status[h], status_code[h], response_size[h]>>
    <3>1. g # h
      BY <1>1, <2>1 DEF knHttpRequest, Final, Live
    <3>2. QED BY <2>1, <3>1, <1>1 DEF knHttpRequest, Fresh, IInv, TypeOK
  <2>2. ASSUME NEW g \in Handles, knHttpUpdate(g)
        PROVE  UNCHANGED <<status[h], status_code[h], response_size[h]>>
    <3>1. CASE g = h
      BY <1>1, <2>2, <3>1, UpdateKeepsFinal
    <3>2. CASE g # h
      BY <1>1, <2>2, <3>2 DEF knHttpUpdate, TakeError, SendRequest, Receive, Parse, handleVars,
                              IInv, TypeOK
    <3>3. QED BY <3>1, <3>2
  <2>3. ASSUME NEW g \in Handles, knHttpRelease(g)
        PROVE  UNCHANGED <<status[h], status_code[h], response_size[h]>>
    <3>1. g # h
      BY <1>1, <2>3 DEF knHttpRelease, Live, IInv, TypeOK
    <3>2. QED BY <2>3, <3>1, <1>1 DEF knHttpRelease, Fresh, IInv, TypeOK
  <2>4. CASE \E f \in Descriptors : Connected(f) \/ Fails(f) \/ ServerSends(f) \/ ServerCloses(f)
    BY <2>4 DEF Connected, Fails, ServerSends, ServerCloses, handleVars
  <2>5. CASE UNCHANGED vars \/ \E g \in Handles : ReleaseAgain(g)
    BY <2>5 DEF vars, ReleaseAgain, handleVars
  <2>6. QED BY <1>1, <2>1, <2>2, <2>3, <2>4, <2>5 DEF Next
<1>2. IInv /\ [Next]_vars =>
        (\A h \in Handles : Final(h) /\ Live(h)' =>
            UNCHANGED <<status[h], status_code[h], response_size[h]>>)
  BY <1>1
<1>3. QED BY <1>2, AlwaysIInv, PTL DEF Spec, StatusStable
==============================================================================
