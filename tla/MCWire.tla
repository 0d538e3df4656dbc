------------------------------- MODULE MCWire -------------------------------
(* The packet sessions, PC/SC and the reading of report descriptors for TLC, *)
(* one at a time, beside the reading of a CTAPHID message.                   *)
EXTENDS MCHidMessage, PacketSession, PcscBackend, ReportDescriptor

CONSTANTS ann, bob

allVars == <<vars, sessionVars, pcscVars, descriptorVars>>

Item(t, v) == [tag |-> t, value |-> v]

\* An Application collection, named or not, around other items.
Application(usage, inside) ==
  usage \o <<Item("Collection", 1)>> \o inside \o <<Item("EndCollection", 0)>>

Fields(bits) == <<Item("ReportSize", bits), Item("ReportCount", 1)>>

Numbered(in, out) ==
  Application(<<Item("Usage", 1)>>,
    Fields(8) \o <<Item("ReportID", in), Item("Input", 2),
                   Item("ReportID", out), Item("Output", 2)>>)

Unnumbered(bits) ==
  Application(<<Item("Usage", 2)>>, Fields(bits) \o <<Item("Input", 2), Item("Output", 2)>>)

MCFragments ==
  {Numbered(1, 1), Numbered(2, 1), Unnumbered(9), Unnumbered(0),
   <<Item("Push", 0), Item("UsagePage", 7)>>}
  \cup {<<Item(t, 0)>> : t \in {"Input", "Output", "Feature", "OtherMain", "OtherGlobal",
                                "OtherLocal", "Pop", "Long", "Cut", "Delimiter", "Reserved",
                                "EndCollection"}}
  \cup {<<Item("Usage", v)>> : v \in {3, 5 * Word + 1}}
  \cup {<<Item("UsageMinimum", 2)>>, <<Item("UsagePage", Word + 1)>>}
  \cup {<<Item("UsageMaximum", v)>> : v \in {1, 2}}
  \cup {<<Item("Collection", v)>> : v \in {0, 1}}
  \cup {<<Item("ReportID", v)>> : v \in {0, 256}}

HidMessageOff ==
  /\ messages = <<[command |-> command, payload |-> <<>>]>> /\ sent = 1 /\ own = <<>> /\ other = <<>>
  /\ mode = "done" /\ assembler = NewAssembler(Own, command)
  /\ result = [kind |-> "ctx", payload |-> <<>>]

SessionOff == /\ kind = "nfc" /\ mu = Nobody /\ device = [inbound |-> <<>>, outbound |-> <<>>]
              /\ exchange = [c \in Callers |-> [NoExchange EXCEPT !.pc = "done"]]
              /\ executed = {} /\ closed = TRUE /\ spoiled = FALSE /\ failures = 0

PcscOff == /\ user = [u \in Users |-> [IdleUser EXCEPT !.pc = "done"]]
           /\ contexts = {} /\ card = [r \in Readers |-> {}]

DescriptorOff ==
  /\ phase = "done" /\ items = << >> /\ fragments = 0 /\ failed = TRUE /\ broken = TRUE
  /\ global = [page |-> 0, size |-> 0, count |-> 0, id |-> 0] /\ stack = << >>
  /\ collections = << >> /\ usages = << >> /\ minimum = 0 /\ hasMinimum = FALSE
  /\ unnamed = FALSE /\ invalidLayout = FALSE /\ applications = << >> /\ inputs = << >>
  /\ outputs = << >> /\ index = 1 /\ inOwners = NoReports /\ outOwners = NoReports
  /\ unsupported = {} /\ supported = {} /\ page = 0 /\ pages = << >> /\ named = FALSE
  /\ first = 0 /\ least = 0 /\ hasMin = FALSE /\ depth = 0 /\ found = << >>

WireInit == \/ Init /\ SessionOff /\ PcscOff /\ DescriptorOff
            \/ HidMessageOff /\ SessionInit /\ PcscOff /\ DescriptorOff
            \/ HidMessageOff /\ SessionOff /\ PcscInit /\ DescriptorOff
            \/ HidMessageOff /\ SessionOff /\ PcscOff /\ DescriptorInit

WireNext == \/ Next /\ UNCHANGED <<sessionVars, pcscVars, descriptorVars>>
            \/ SessionNext /\ UNCHANGED <<vars, pcscVars, descriptorVars>>
            \/ PcscNext /\ UNCHANGED <<vars, sessionVars, descriptorVars>>
            \/ DescriptorNext /\ UNCHANGED <<vars, sessionVars, pcscVars>>

WireSpec == WireInit /\ [][WireNext]_allVars
=============================================================================
