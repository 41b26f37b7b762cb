---------------------------- MODULE ProxyRequest ----------------------------
(* One request through a proxy or without: the probe for the size of a file  *)
(* (download_probe_url: HEAD, then a GET of one byte when HEAD gave no size) *)
(* or a connection of a download until its answer (dl_connect, dl_handler).  *)
(* What is sent is a sequence of names, the peer answers them one by one or  *)
(* no more, and an answer stays in the buffer until the handler takes it.    *)
(* The library is external: it tells of what was written and of what came,   *)
(* and may reject or take for an answer what it finds in the buffer.         *)
(* Proxies that are themselves reached by TLS are left out.                  *)
EXTENDS Naturals, Sequences

CONSTANTS Size  \* of the file

(* What an instance has to give these constants. *)
ProxyRequestAssumption == Size \in Nat /\ Size > 1

VARIABLES user,      \* "probe" or "download"
          target,    \* scheme of the address
          proxy,     \* kind of the proxy, or "none"
          auth,      \* the proxy's address has a user
          conn,      \* "none", "connecting", "open", "closed"
          tls,       \* "no", "handshake", "up"
          stage,     \* ProxySocksCtx.stage
          tunnel,    \* proxy_tunnel_done
          requested, \* request_sent, c->data[0]
          sent,      \* what this connection has sent
          heard,     \* how much of it the peer has dealt with
          buffer,    \* c->recv
          writes,    \* MG_EV_WRITE is due
          method,    \* of the probe
          result     \* [done, failed, status, size]

kinds == <<user, target, proxy, auth>>
vars == <<kinds, conn, tls, stage, tunnel, requested, sent, heard, buffer, writes, method, result>>

Pending == [done |-> FALSE, failed |-> FALSE, status |-> "none", size |-> 0]
Init == /\ user \in {"probe", "download"}
        /\ target \in {"http", "https"}
        /\ proxy \in {"none", "http", "socks5"}
        /\ auth \in BOOLEAN
        /\ conn = "none" /\ tls = "no" /\ stage = "none"
        /\ tunnel = FALSE /\ requested = FALSE /\ writes = FALSE
        /\ sent = <<>> /\ heard = 0 /\ buffer = <<>>
        /\ method = "HEAD"
        /\ result = Pending

Tunnels == proxy = "socks5" \/ (proxy = "http" /\ target = "https")

Done(status, size) == [done |-> TRUE, failed |-> FALSE, status |-> status, size |-> size]
Failure == [result EXCEPT !.done = TRUE, !.failed = TRUE]

Say(what) == sent' = sent \o what /\ writes' = TRUE

(* Mutant: every event that allows a request sends one. *)
MayRequestAgain == TRUE

MayRequest == ~requested

(* probe_send_request, send_request_for_slot *)
Request ==
    IF MayRequest
    THEN requested' = TRUE /\ Say(<<"request">>)
    ELSE UNCHANGED <<requested, sent, writes>>

---------------------------------------------------------------------------
(* probe_run_once, dl_connect *)
Connect == /\ conn = "none" /\ ~result.done
           /\ conn' = "connecting"
           /\ tls' = "no" /\ stage' = "none"
           /\ tunnel' = FALSE /\ requested' = FALSE /\ writes' = FALSE
           /\ sent' = <<>> /\ heard' = 0 /\ buffer' = <<>>
           /\ UNCHANGED <<kinds, method, result>>

(* MG_EV_CONNECT *)
Connected ==
    /\ conn = "connecting" /\ ~result.done
    /\ conn' = "open"
    /\ CASE proxy = "socks5" ->    \* proxy_socks5_begin
              /\ stage' = "greeting" /\ Say(<<"greeting">>)
              /\ UNCHANGED <<tls, requested>>
         [] proxy = "http" /\ target = "https" ->    \* proxy_send_connect
              Say(<<"connect">>) /\ UNCHANGED <<tls, stage, requested>>
         [] proxy = "none" /\ target = "https" ->
              tls' = "handshake" /\ UNCHANGED <<stage, requested, sent, writes>>
         [] OTHER -> Request /\ UNCHANGED <<tls, stage>>
    /\ UNCHANGED <<kinds, tunnel, heard, buffer, method, result>>

Open == conn = "open" /\ ~result.done

(* MG_EV_TLS_HS *)
HandshakeDone == /\ Open /\ tls = "handshake"
                 /\ tls' = "up"
                 /\ Request
                 /\ UNCHANGED <<kinds, conn, stage, tunnel, heard, buffer, method, result>>

(* MG_EV_WRITE *)
WriteDone == /\ Open /\ writes
             /\ IF tls = "handshake"
                THEN writes' = FALSE /\ UNCHANGED <<requested, sent>>
                ELSE IF MayRequest
                     THEN requested' = TRUE /\ sent' = Append(sent, "request") /\ UNCHANGED writes
                     ELSE writes' = FALSE /\ UNCHANGED <<requested, sent>>
             /\ UNCHANGED <<kinds, conn, tls, stage, tunnel, heard, buffer, method, result>>

---------------------------------------------------------------------------
Successful == {"200", "200-sized", "206", "206-star"}

(* What a proxy and a server answer to what they were sent; a proxy that is
   still told where to go does not answer a request.  A redirect or an error
   may have a body, and then says its length as a file's answer does. *)
Answers(what) ==
    CASE what = "greeting" -> {"none-needed", "user-needed", "refused"}
      [] what = "user" -> {"granted", "denied"}
      [] what = "target" -> {"reached", "unreachable"}
      [] what = "connect" -> {"200", "407", "407-sized"}
      [] what = "request" -> IF Tunnels /\ (~tunnel \/ (target = "https" /\ tls # "up")) THEN {}
                             ELSE Successful \cup {"302", "302-sized", "404", "404-sized"}

(* The tunnel stands: the buffer is emptied and the request is due. *)
TunnelDone == /\ tunnel' = TRUE
              /\ buffer' = <<>>
              /\ IF target = "https"
                 THEN tls' = "handshake" /\ UNCHANGED <<requested, sent, writes>>
                 ELSE Request /\ UNCHANGED tls

NotYet == UNCHANGED <<tls, tunnel, requested>>

Gone == /\ stage' = "failed"
        /\ result' = Failure /\ conn' = "closed"
        /\ UNCHANGED <<sent, writes, buffer>> /\ NotYet

(* proxy_socks5_handle_read: it looks at the start of the buffer, from which
   what was dealt with is not taken. *)
SocksRead(b) ==
    LET first == b[1]
    IN CASE stage = "greeting" /\ first = "user-needed" /\ auth ->
              /\ stage' = "user" /\ Say(<<"user">>) /\ buffer' = b
              /\ UNCHANGED <<conn, result>> /\ NotYet
         [] stage = "greeting" /\ first = "none-needed" ->
              /\ stage' = "target" /\ Say(<<"target">>) /\ buffer' = b
              /\ UNCHANGED <<conn, result>> /\ NotYet
         [] stage = "user" /\ first = "granted" ->
              /\ stage' = "target" /\ Say(<<"target">>) /\ buffer' = b
              /\ UNCHANGED <<conn, result>> /\ NotYet
         [] stage = "target" /\ first \in {"reached", "none-needed"} ->
              /\ stage' = "done" /\ TunnelDone
              /\ UNCHANGED <<conn, result>>
         [] OTHER -> Gone

(* probe_extract_size: the range's total, or else the length that the answer
   says, whatever its status.  A page of one byte stands for every length that
   is not the file's. *)
SizeIn(answer) ==
    CASE answer \in {"200-sized", "206"} -> Size
      [] answer \in {"206-star", "302-sized", "404-sized", "407-sized"} -> 1
      [] OTHER -> 0

(* Mutant: the length of the answer before the total of its range. *)
SizeInLength(answer) == IF answer = "206" THEN 1 ELSE SizeIn(answer)

SizeOf(answer) == SizeIn(answer)

(* MG_EV_HTTP_MSG of a probe, the headers of a download *)
Answered(answer) == /\ result' = Done(answer, IF user = "probe" THEN SizeOf(answer) ELSE 0)
                    /\ conn' = "closed"
                    /\ UNCHANGED <<stage, sent, writes>> /\ NotYet

(* A refusal of CONNECT, or what is taken for one, is the answer for a probe
   and the end for a download. *)
NotOk(b) == /\ buffer' = b
            /\ IF user = "probe" THEN Answered(b[1])
               ELSE result' = Failure /\ conn' = "closed"
                    /\ UNCHANGED <<stage, sent, writes>> /\ NotYet

(* MG_EV_READ; proxy_connect_response_ok *)
Read(answer) ==
    LET b == Append(buffer, answer)
    IN CASE proxy = "socks5" /\ ~tunnel -> SocksRead(b)
         [] proxy = "http" /\ ~tunnel /\ answer \in {"200", "200-sized"} ->
              TunnelDone /\ UNCHANGED <<conn, stage, result>>
         [] proxy = "http" /\ ~tunnel /\ answer \notin {"200", "200-sized"} -> NotOk(b)
         [] OTHER -> Answered(answer) /\ buffer' = b

Answer == /\ Open /\ tls # "handshake" /\ heard < Len(sent)
          /\ heard' = heard + 1
          /\ \E answer \in Answers(sent[heard + 1]) : Read(answer)
          /\ UNCHANGED <<kinds, method>>

(* A proxy that is not answered as it expects reads on or hangs up. *)
Unheard == /\ Open /\ heard < Len(sent) /\ Answers(sent[heard + 1]) = {}
           /\ heard' = heard + 1
           /\ UNCHANGED <<kinds, conn, tls, stage, tunnel, requested, sent, buffer, writes, method,
                          result>>

(* The library finds no HTTP in the buffer, or the connection breaks. *)
Error == /\ conn \in {"connecting", "open"} /\ ~result.done
         /\ result' = Failure /\ conn' = "closed"
         /\ UNCHANGED <<kinds, tls, stage, tunnel, requested, sent, heard, buffer, writes, method>>

(* MG_EV_CLOSE: for a probe the end, and no failure. *)
Close == /\ Open
         /\ conn' = "closed"
         /\ result' = IF user = "probe" THEN Done("none", 0) ELSE Failure
         /\ UNCHANGED <<kinds, tls, stage, tunnel, requested, sent, heard, buffer, writes, method>>

(* Mutant: time is asked for only until the connection stands. *)
TimeIsUpConnecting == conn = "connecting"

(* MG_EV_POLL: the deadlines of a probe, the idle time of a download *)
TimeIsUp == conn \in {"connecting", "open"}

Expire == /\ TimeIsUp /\ ~result.done
          /\ result' = Failure /\ conn' = "closed"
          /\ UNCHANGED <<kinds, tls, stage, tunnel, requested, sent, heard, buffer, writes, method>>

(* download_probe_url: a second request when the first gave no size *)
ProbeAgain == /\ user = "probe" /\ method = "HEAD"
              /\ result.done /\ ~result.failed /\ result.size = 0
              /\ result.status \in Successful
              /\ method' = "GET" /\ conn' = "none"
              /\ result' = Pending
              /\ UNCHANGED <<kinds, tls, stage, tunnel, requested, sent, heard, buffer, writes>>

Loop == Connect \/ Connected \/ HandshakeDone \/ WriteDone \/ Answer \/ Expire \/ ProbeAgain

Next == Loop \/ Unheard \/ Error \/ Close

Spec == Init /\ [][Next]_vars /\ WF_vars(Loop)

---------------------------------------------------------------------------
(* The types of the variables. *)
TypeOK == /\ conn \in {"none", "connecting", "open", "closed"}
          /\ tls \in {"no", "handshake", "up"}
          /\ stage \in {"none", "greeting", "user", "target", "done", "failed"}
          /\ heard \in 0..Len(sent)
          /\ result.size \in {0, 1, Size}

(* A connection asks once, though the connection, the handshake, the tunnel
   and every write are occasions to ask (probe_send_request,
   send_request_for_slot). *)
AsksOnce == \A i, j \in 1..Len(sent) : sent[i] = "request" /\ sent[j] = "request" => i = j

(* What a probe reports of a successful answer is the size of the file or none,
   through a proxy or without, after one request or two, if the server says the
   total with a range (probe_extract_size). *)
SizeIsTheFiles ==
    user = "probe" /\ result.status \in Successful \ {"206-star"} => result.size \in {0, Size}

(* The size that a probe reports with success is that of the file, as the
   comment of download_probe_url has it.  It does not hold: the length of the
   page of an error or of a redirect is reported as well. *)
ReportedSizeIsTheFiles ==
    user = "probe" /\ result.done /\ ~result.failed /\ result.status # "206-star"
        => result.size \in {0, Size}

(* What a connection says, and what comes back. *)
Words == {"greeting", "user", "target", "connect", "request"}
Replies == {"none-needed", "user-needed", "refused", "granted", "denied", "reached", "unreachable",
            "200", "200-sized", "206", "206-star", "302", "302-sized", "404", "404-sized",
            "407", "407-sized"}

(* What has been sent asks at most once, and not before the mark is set; without
   a proxy it is nothing else. *)
SaidOnce == /\ sent \in Seq(Words)
            /\ requested \in BOOLEAN
            /\ AsksOnce
            /\ ~requested => \A i \in 1..Len(sent) : sent[i] # "request"
            /\ proxy = "none" => \A i \in 1..Len(sent) : sent[i] = "request"

(* The inductive invariant. *)
IInv == /\ TypeOK
        /\ SaidOnce
        /\ SizeIsTheFiles
        /\ buffer \in Seq(Replies)
        /\ result \in [done : BOOLEAN, failed : BOOLEAN, status : Replies \cup {"none"},
                       size : {0, 1, Size}]

Over == result.done

(* A probe and the wait for an answer come to their end
   (probe_handler, dl_handler). *)
Settles == []<>Over
=============================================================================
