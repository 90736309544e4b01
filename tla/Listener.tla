------------------------------ MODULE Listener ------------------------------
(***************************************************************************)
(* app/serve.rs: the calls that turn a ServeConfig into a listening        *)
(* socket.  An option that is not configured is <<>>.                      *)
(***************************************************************************)
EXTENDS Naturals, Sequences

CONSTANTS
  MaxI32,          \* the largest backlog listen can be given
  OnUnix,          \* ~cfg!(windows); reuse_port exists there only
  DefaultBacklog   \* default_listen_backlog() of the platform

ASSUME ListenerAssumption == MaxI32 \in Nat

SocketOptions == {"reuse_address", "reuse_port", "ipv6_only",
                  "recv_buffer_size", "send_buffer_size"}
ConfigFields == SocketOptions \union {"backlog", "tcp_nodelay"}

NewServeConfig == [f \in ConfigFields |-> <<>>]
Tune(config, field, value) == [config EXCEPT ![field] = <<value>>]

NeedsCustomBindForgetsBuffers(config) ==
  \E f \in {"backlog", "reuse_address", "ipv6_only", "reuse_port"} : config[f] # <<>>

NeedsCustomBind(config) == \E f \in ConfigFields \ {"tcp_nodelay"} : config[f] # <<>>

ListenBacklog(backlog) ==
  IF backlog = <<>> THEN DefaultBacklog
  ELSE IF backlog[1] <= MaxI32 THEN backlog[1] ELSE MaxI32

-----------------------------------------------------------------------------
(* The system calls of bind_listener, in order; each of them can fail. *)

Syscall(op, value) == [op |-> op, value |-> value]
SetIfGiven(config, option) ==
  IF config[option] = <<>> THEN <<>> ELSE <<Syscall(option, config[option][1])>>

CustomBind(family, config) ==
  <<Syscall("socket", family)>>
  \o (IF family = "V6" THEN SetIfGiven(config, "ipv6_only") ELSE <<>>)
  \o <<Syscall("reuse_address",
               IF config.reuse_address = <<>> THEN OnUnix ELSE config.reuse_address[1])>>
  \o SetIfGiven(config, "reuse_port")
  \o SetIfGiven(config, "recv_buffer_size")
  \o SetIfGiven(config, "send_buffer_size")
  \o <<Syscall("nonblocking", TRUE), Syscall("bind", family),
       Syscall("listen", ListenBacklog(config.backlog)), Syscall("from_std", TRUE)>>

(* tokio::net::TcpListener::bind, with its own backlog. *)
TokioBind(family) ==
  <<Syscall("socket", family), Syscall("nonblocking", TRUE),
    Syscall("reuse_address", OnUnix), Syscall("bind", family), Syscall("listen", "tokio")>>

BindListener(family, config) ==
  IF NeedsCustomBind(config) THEN CustomBind(family, config) ELSE TokioBind(family)
=============================================================================
