--------------------------- MODULE KernelDownload ---------------------------
(***************************************************************************)
(* bootloader/src/pxe.rs: download, the sequence of calls of the firmware's *)
(* PXE interface that fetches the kernel from a TFTP server, and the loop  *)
(* of bootloader/src/main.rs that calls it until it succeeds.  Any call    *)
(* may fail, and the server's file may be replaced at any time.  A file is *)
(* a version and its length; P bytes make a packet.                        *)
(***************************************************************************)
EXTENDS Integers, Sequences

CONSTANTS Length,     \* length of each version of the file
          P,          \* packet size: 512
          MaxFaults,  \* how many calls of the firmware fail
          MaxChanges  \* how often the file is replaced

ASSUME DownloadAssumption == /\ Length \in Seq(Nat) /\ Length # <<>>
                             /\ P \in Nat \ {0}
                             /\ MaxFaults \in Nat /\ MaxChanges \in Nat

\* The bytes of a version of the file, told apart by their origin.
Content(v) == [i \in 1 .. Length[v] |-> <<v, i>>]

NoConnection == [file |-> 0, at |-> 0]

VARIABLES call,        \* the next call: "check", "size", "open", "read" or "close"; "done"
          file_size, download,  \* locals of download
          kernel,      \* what the loop returned
          file,        \* the version the server has
          conn,        \* the TFTP connection: the file it serves and how far it is
          faults, changes  \* inputs left

fetch   == <<call, file_size, download, kernel, conn>>
server  == <<file, faults, changes>>
pxeVars == <<fetch, server>>

DownloadInit ==
    /\ call = "check" /\ file_size = 0 /\ download = <<>> /\ kernel = <<>>
    /\ file = 1 /\ conn = NoConnection
    /\ faults = MaxFaults /\ changes = MaxChanges

\* The installation check, the PXENV+ and !PXE structures, the server's address.
Check ==
    /\ call = "check" /\ call' = "size"
    /\ UNCHANGED <<file_size, download, kernel, conn, server>>

GetFileSize ==
    /\ call = "size" /\ call' = "open"
    /\ file_size' = Length[file]
    /\ UNCHANGED <<download, kernel, conn, server>>

\* A connection that an earlier attempt left open is given up by the firmware.
Open ==
    /\ call = "open" /\ call' = "read"
    /\ conn' = [file |-> file, at |-> 0]
    /\ download' = <<>>
    /\ UNCHANGED <<file_size, kernel, server>>

\* The firmware's answer to a read: a packet, which is short at the end of the file.
Packet == LET content == Content(conn.file)
              end == IF conn.at + P < Len(content) THEN conn.at + P ELSE Len(content) IN
          SubSeq(content, conn.at + 1, end)

\* A plausible slip: the transfer ends when file_size bytes have arrived.
FinalBySize == Len(download) + Len(Packet) = file_size

\* A partial packet is the last one.
Final == Len(Packet) < P

\* "This can happen if the file has changed since we got the size."
Overflows == Len(download) + Len(Packet) > file_size

\* An attempt ends without a result and leaves the connection as it is; the loop
\* calls download again.
Retry ==
    /\ call' = "check" /\ file_size' = 0 /\ download' = <<>>
    /\ UNCHANGED kernel

Read ==
    /\ call = "read"
    /\ conn' = [conn EXCEPT !.at = @ + Len(Packet)]
    /\ \/ Overflows /\ Retry
       \/ /\ ~ Overflows
          /\ download' = download \o Packet
          /\ call' = IF Final THEN "close" ELSE "read"
          /\ UNCHANGED <<file_size, kernel>>
    /\ UNCHANGED server

Close ==
    /\ call = "close" /\ call' = "done"
    /\ conn' = NoConnection
    /\ UNCHANGED <<file_size, download, kernel, server>>

\* One call of the firmware returns an error, or something download refuses.
Fault ==
    /\ call # "done" /\ faults > 0
    /\ faults' = faults - 1
    /\ Retry
    /\ UNCHANGED <<conn, file, changes>>

\* The kernel goes into memory and the buffer is freed.
TakeKernel ==
    /\ call = "done" /\ call' = "check"
    /\ kernel' = download
    /\ file_size' = 0 /\ download' = <<>>
    /\ UNCHANGED <<conn, server>>

\* A new kernel is put on the server.
ReplaceFile ==
    /\ changes > 0
    /\ changes' = changes - 1
    /\ \E v \in DOMAIN Length \ {file} : file' = v
    /\ UNCHANGED <<fetch, faults>>

DownloadStep == Check \/ GetFileSize \/ Open \/ Read \/ Close
=============================================================================
