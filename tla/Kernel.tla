------------------------------- MODULE Kernel -------------------------------
(***************************************************************************)
(* The operating system as src/src/http.c uses it, external to the         *)
(* repository: TCP connections, the process's descriptor table and one     *)
(* kqueue.  A request is Parts chunks long; what is in a chunk does not    *)
(* matter here.                                                            *)
(*                                                                         *)
(*   - accept and open return the lowest free descriptor;                  *)
(*   - closing a descriptor drops its READ and WRITE registrations, but    *)
(*     not the events a kevent call has already copied out;                *)
(*   - READ registrations are level triggered, WRITE ones fire once        *)
(*     (EV_ONESHOT), the listener's fires once per change (EV_CLEAR);      *)
(*   - there is one registration per descriptor and filter: adding it      *)
(*     again replaces its user data.                                       *)
(***************************************************************************)
EXTENDS Naturals, Sequences, FiniteSets

CONSTANTS Conn,        \* the connections clients may open, each once
          None,        \* no connection, no registration
          NFds,        \* descriptors the process may have for clients and files
          MaxFiles,    \* bound: files open at a time
          Parts,       \* chunks a request arrives in
          MaxHangups   \* bound: connections a client shuts down or closes

ASSUME KernelAssumption == /\ None \notin Conn /\ None \notin Nat
                           /\ NFds \in Nat \ {0} /\ Parts \in Nat \ {0}
                           /\ MaxHangups \in Nat /\ MaxFiles \in Nat

LnFd == 0              \* the listener's descriptor
Fd == 1..NFds

VARIABLES
  net,      \* [Conn -> state of the connection]: see Fresh
  fdt,      \* descriptor table: [Fd -> Conn \cup {None}]
  files,    \* the descriptors of open files
  rk,       \* READ registrations: [Fd -> udata (a list node) or None]
  wk,       \* WRITE registrations: [Fd -> udata (a thread_node_t) or None]
  backlog,  \* connections the listener holds, oldest first
  lnReady,  \* the listener changed since kevent last reported it
  lnOpen    \* the listener is open

kernel == <<net, fdt, files, rk, wk, backlog, lnReady, lnOpen>>

(* st: "out", "backlog", "open" (accepted) or "closed" (by the server);    *)
(* sent, rcvd: chunks the client sent, the server read; hup: "no", "half"  *)
(* (the client shut its sending side) or "gone" (it closed the socket);    *)
(* got: the chunks of responses sent to it.                                *)
Fresh == [st |-> "out", sent |-> 0, rcvd |-> 0, hup |-> "no", got |-> << >>]

KernelInit == /\ net = [c \in Conn |-> Fresh]
              /\ fdt = [f \in Fd |-> None]
              /\ files = {}
              /\ rk = [f \in Fd |-> None]
              /\ wk = [f \in Fd |-> None]
              /\ backlog = << >>
              /\ lnReady = FALSE
              /\ lnOpen = TRUE
-----------------------------------------------------------------------------
(* What clients do. *)
connect(c) == /\ lnOpen
              /\ net[c].st = "out"
              /\ net' = [net EXCEPT ![c].st = "backlog"]
              /\ backlog' = Append(backlog, c)
              /\ lnReady' = TRUE
              /\ UNCHANGED <<fdt, files, rk, wk, lnOpen>>

send_chunk(c) == /\ net[c].st \in {"backlog", "open"}
                 /\ net[c].hup = "no"
                 /\ net[c].sent < Parts
                 /\ net' = [net EXCEPT ![c].sent = @ + 1]
                 /\ UNCHANGED <<fdt, files, rk, wk, backlog, lnReady, lnOpen>>

Hungup == {c \in Conn : net[c].hup # "no"}

hang_up(c) == /\ net[c].st \in {"backlog", "open"}
              /\ net[c].hup = "no"
              /\ Cardinality(Hungup) < MaxHangups
              /\ \E h \in {"half", "gone"} : net' = [net EXCEPT ![c].hup = h]
              /\ UNCHANGED <<fdt, files, rk, wk, backlog, lnReady, lnOpen>>

client == \E c \in Conn : connect(c) \/ send_chunk(c) \/ hang_up(c)
-----------------------------------------------------------------------------
(* System calls: each says what the next state of its part of kernel is.   *)
FreeFds == {f \in Fd : fdt[f] = None /\ f \notin files}

lowest(f) == f \in FreeFds /\ \A g \in FreeFds : f <= g

open_file == /\ Cardinality(files) < MaxFiles
             /\ \E f \in Fd : lowest(f) /\ files' = files \cup {f}

(* accept on a listener with a pending connection and a free descriptor. *)
accept(c, f) == /\ backlog # << >> /\ c = Head(backlog)
                /\ lowest(f)
                /\ backlog' = Tail(backlog)

(* close of every open descriptor in F; net0 is net after the step's       *)
(* other effects.                                                          *)
close(F, net0) ==
  /\ fdt' = [f \in Fd |-> IF f \in F THEN None ELSE fdt[f]]
  /\ files' = files \ F
  /\ rk' = [f \in Fd |-> IF f \in F THEN None ELSE rk[f]]
  /\ wk' = [f \in Fd |-> IF f \in F THEN None ELSE wk[f]]
  /\ net' = [c \in Conn |-> IF \E f \in F : fdt[f] = c
                           THEN [net0[c] EXCEPT !.st = "closed"] ELSE net0[c]]

(* close of the listener resets the connections nobody accepted. *)
close_listener == /\ lnOpen' = FALSE
                  /\ lnReady' = FALSE
                  /\ backlog' = << >>
                  /\ net' = [c \in Conn |-> IF net[c].st = "backlog"
                                           THEN [net[c] EXCEPT !.st = "closed"] ELSE net[c]]

Event(filter, f, udata, eof) == [filter |-> filter, fd |-> f, udata |-> udata, eof |-> eof]

Readable(c) == net[c].sent > net[c].rcvd \/ net[c].hup # "no"

(* The events kevent has to report; a socket can always take some bytes.   *)
ReadyEvents ==
  {Event("READ", f, rk[f], net[fdt[f]].hup # "no") : f \in {g \in Fd : rk[g] # None /\ Readable(fdt[g])}}
  \cup {Event("WRITE", f, wk[f], FALSE) : f \in {g \in Fd : wk[g] # None}}
  \cup (IF lnReady THEN {Event("READ", LnFd, None, FALSE)} ELSE {})

(* kevent copies them out: WRITE registrations are gone, the listener's    *)
(* and the READ ones stay.                                                 *)
kevent_report == /\ ReadyEvents # {}
                 /\ wk' = [f \in Fd |-> None]
                 /\ lnReady' = FALSE
                 /\ UNCHANGED <<net, fdt, files, rk, backlog, lnOpen>>
=============================================================================
