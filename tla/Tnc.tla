--------------------------------- MODULE Tnc --------------------------------
(***************************************************************************)
(* apps/ax25tnc/ax25tnc.c: main(), the KISS server's thread, which         *)
(* modulates and sends the packets of KISS clients, and the audio client's *)
(* thread, which demodulates and hands packets to KISS clients.            *)
(*                                                                         *)
(* A packet is its number of bits on the air; Kiss, Ax25Packet, Ax25Link   *)
(* and Demodulator have the rest.                                          *)
(***************************************************************************)
EXTENDS NetClient, Config

CONSTANTS ConfigFiles,   \* configuration files to start with
          BitBytes,      \* bytes of samples per bit
          MaxBits        \* bound: bits of all packets together

ASSUME TncAssumption ==
    BitBytes \in Nat \ {0} /\ MaxBits \in Nat /\ ConfigFiles \subseteq Seq(Seq(STRING))

VARIABLES tm,       \* main(): "config", "server", "socket", "connect", "wait", "join", "exit"
          file,     \* the configuration file, until the server starts
          config,   \* what was read from it
          kt,       \* KISS server's thread: "none", "poll", "send", "done"
          bits,     \* bits of the packet that are left to send
          budget,   \* bits that may still be sent
          kiss      \* the KISS clients: all read, one is "deaf" or one is "gone"

tncVars == <<clientVars, tm, file, config, kt, bits, budget, kiss>>
kissVars == <<kt, bits, budget, kiss>>

TncInit ==
    /\ ClientInit
    /\ tm = "config" /\ file \in ConfigFiles /\ config = <<>>
    /\ kt = "none" /\ bits = 0 /\ budget = MaxBits /\ kiss = "reads"

\* The process ends: exit(), the end of main() or a signal.
TncEnds ==
    /\ tm' = "exit" /\ kt' = "none" /\ bits' = 0 /\ budget' = 0 /\ kiss' = "reads"
    /\ socket' = "stdin" /\ crun' = FALSE /\ ct' = "none" /\ partial' = 0
    /\ tnc_end' = (IF tnc_end = "open" THEN "closed" ELSE tnc_end) /\ down' = 0
    /\ UNCHANGED <<aud_end, up, cut>>

-----------------------------------------------------------------------------
(***************************************************************************)
(* main()                                                                  *)
(***************************************************************************)
ReadConfig ==
    /\ tm = "config"
    /\ config' = ax25tnc_config_read(file)
    /\ tm' = IF config' = <<>> THEN "refuse" ELSE "server"
    /\ UNCHANGED <<clientVars, file, kissVars, wireVars>>

ConfigRefused ==
    /\ tm = "refuse"
    /\ TncEnds /\ file' = <<>> /\ config' = <<>>

\* The demodulator, the modulator, the decoder and the KISS server are set up.
StartKissServer ==
    /\ tm = "server" /\ tm' = "socket"
    /\ kt' = "poll"
    /\ file' = <<>> /\ config' = <<>>
    /\ UNCHANGED <<clientVars, bits, budget, kiss, wireVars>>

MakeSocket ==
    /\ tm = "socket" /\ tm' = "connect"
    /\ ClientSocket
    /\ UNCHANGED <<file, config, kissVars>>

\* ns_client_connect reaches a server that listens, whether or not it accepts.
Connect ==
    /\ tm = "connect" /\ tm' = "wait" /\ aud_end = "none"
    /\ ClientConnect
    /\ UNCHANGED <<file, config, kissVars>>

\* ns_server_init, gethostbyname(), socket(), connect() or pthread_create() fails.
SetupFails ==
    /\ tm \in {"server", "socket", "connect"}
    /\ TncEnds /\ file' = <<>> /\ config' = <<>>

\* ns_server_wait has returned.
StopClient ==
    /\ tm = "wait" /\ kt = "done" /\ tm' = "join"
    /\ ClientStop
    /\ UNCHANGED <<file, config, kissVars>>

Cleanup ==
    /\ tm = "join" /\ ClientJoined
    /\ TncEnds /\ UNCHANGED <<file, config>>

TncMain ==
    \/ ReadConfig \/ ConfigRefused \/ StartKissServer \/ MakeSocket \/ Connect
    \/ StopClient \/ Cleanup

-----------------------------------------------------------------------------
(***************************************************************************)
(* KISS server's thread                                                    *)
(***************************************************************************)
\* A KISS client sends a data frame, which becomes a packet of n bits.
incoming_kiss_message_callback(n) ==
    /\ kt = "poll" /\ n <= budget
    /\ kt' = "send" /\ bits' = n /\ budget' = budget - n
    /\ UNCHANGED <<clientVars, tm, file, config, kiss, wireVars>>

\* The modulator's samples of one bit are sent.
modulated_samples_callback ==
    /\ kt = "send"
    /\ SendDone(BitBytes)
    /\ bits' = bits - 1
    /\ kt' = IF bits = 1 THEN "poll" ELSE "send"
    /\ UNCHANGED <<tm, file, config, budget, kiss>>

\* ns_client_send failed: exit(EXIT_FAILURE).
SamplesRefused ==
    /\ kt = "send" /\ SendFails(BitBytes)
    /\ TncEnds /\ file' = <<>> /\ config' = <<>>

\* The server thread leaves its loop (see NetServer).
KissServerFails ==
    /\ kt = "poll" /\ kt' = "done"
    /\ UNCHANGED <<clientVars, tm, file, config, bits, budget, kiss, wireVars>>

KissThread == modulated_samples_callback \/ SamplesRefused

-----------------------------------------------------------------------------
(***************************************************************************)
(* Audio client's thread                                                   *)
(***************************************************************************)
\* The samples are demodulated; they may complete a packet.
data_callback ==
    /\ ct = "callback"
    /\ ct' \in {Loop, "packet"}
    /\ UNCHANGED <<socket, crun, partial, tm, file, config, kissVars, wireVars>>

\* The packet is broadcast to the KISS clients, which waits for those that have
\* stopped to read; one may stop now.  What is sent to one that has gone is lost,
\* and its slot may be emptied.
demodulated_packet_callback ==
    /\ ct = "packet" /\ kiss # "deaf"
    /\ ct' = Loop
    /\ kiss' \in {"reads", "deaf", kiss}
    /\ UNCHANGED <<socket, crun, partial, tm, file, config, kt, bits, budget, wireVars>>

\* ... unless SIGPIPE ends the process first.
PacketSigPipe ==
    /\ ct = "packet" /\ kiss = "gone"
    /\ TncEnds /\ UNCHANGED <<file, config>>

ClientThread ==
    \/ data_callback \/ demodulated_packet_callback \/ PacketSigPipe
    \/ /\ ClientEof \/ \E n \in Chunks(ClientBufSize, down) : ClientRecv(n)
       /\ UNCHANGED <<tm, file, config, kissVars>>

\* The KISS client reads again.
KissClientReads ==
    /\ kiss = "deaf" /\ kiss' = "reads"
    /\ UNCHANGED <<clientVars, tm, file, config, kt, bits, budget, wireVars>>

\* A KISS client disconnects or ends.
KissClientGoes ==
    /\ kt # "none" /\ kiss' = "gone"
    /\ UNCHANGED <<clientVars, tm, file, config, kt, bits, budget, wireVars>>

-----------------------------------------------------------------------------
TncTypeOK ==
    /\ ClientTypeOK
    /\ tm \in {"config", "refuse", "server", "socket", "connect", "wait", "join", "exit"}
    /\ kt \in {"none", "poll", "send", "done"}
    /\ bits \in 0 .. MaxBits /\ budget \in 0 .. MaxBits
    /\ kiss \in {"reads", "deaf", "gone"}
=============================================================================
