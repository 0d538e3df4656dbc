------------------------------ MODULE WireNfc -------------------------------
(* The APDU framing of pkg/wire/nfc: chained short command APDUs and the    *)
(* reassembly of a response from GET RESPONSE pieces.  A response is its    *)
(* body and its status word, sorted as the code does.                       *)
EXTENDS Naturals, Sequences

CONSTANT maxChunkSize

ASSUME NfcAssumption == maxChunkSize \in Nat \ {0}

nfcChunks(n) == IF n = 0 THEN 1 ELSE (n + maxChunkSize - 1) \div maxChunkSize

\* The chain bit is set on every packet but the last.
nfcFragment(payload) ==
  [p \in 1..nfcChunks(Len(payload)) |->
     [ins |-> "command", chained |-> p * maxChunkSize < Len(payload),
      data |-> SubSeq(payload, (p - 1) * maxChunkSize + 1,
                      IF p * maxChunkSize < Len(payload) THEN p * maxChunkSize ELSE Len(payload))]]

GetResponsePacket == [ins |-> "getResponse", chained |-> FALSE, data |-> <<>>]

\* Between the packets of a command only a bare 9000 will do.
ValidateInterimResponse(response) == response.data = <<>> /\ response.sw = "9000"

nfcAssembler == [buffer |-> <<>>, done |-> FALSE, failed |-> FALSE]

nfcAdd(a, response) ==
  [a EXCEPT !.buffer = @ \o response.data,
            !.done   = response.sw = "9000",
            !.failed = response.sw \notin {"9000", "61xx"}]
=============================================================================
