------------------------------- MODULE MCAgent -------------------------------
(***************************************************************************)
(* An instance of Agent for TLC: the files.                                *)
(***************************************************************************)
EXTENDS Agent

Processor(v) == Line("processor", v) \o Line("vendor_id", v)

\* Two processors, the second without its frequency.
X86 ==
  Processor("0") \o Line("model name", "0") \o Line("cpu MHz", "0") \o Bare("power management")
    \o Blank
    \o Processor("1") \o Line("model name", "1") \o Bare("power management") \o Blank

\* No last line of a processor, one whose first line counts for nothing, and lines
\* after the processors.
Arm ==
  Processor("0") \o Blank
    \o Line("processor", "1") \o Line("model name", "1") \o Line("cpu MHz", "1") \o Blank
    \o Line("Hardware", "board")

\* The file ends with a processor.
Cut == Processor("0") \o Line("cpu MHz", "0")

\* A number is not there.
Empty == Processor("0") \o Bare("cpu MHz") \o Blank

\* A processor's number is not there.
NoNumber == Processor("0") \o Blank \o Bare("processor")

MCCpuFiles == {X86, Arm, Cut, Empty, NoNumber, <<>>}
MCCpuFields == {"model name", "cpu MHz"}

MCMemFiles == {Line("MemTotal:", "8") \o Line("MemFree:", "4"), Line("MemTotal:", "8"),
   Line("MemTotal:", "8") \o <<Piece(KeyText("MemFree:"), FALSE), Piece(KeyText("none"), TRUE)>>}
MCMemFields == {"MemTotal:", "MemFree:"}

MCOsFiles ==
  {Line("NAME", "a") \o Line("PRETTY_NAME", "b") \o Blank \o Line("PRETTY_NAME", "c"),
   Line("NAME", "a") \o <<Piece(KeyText("PRETTY_NAME"), FALSE), Piece(ValueText("b"), FALSE)>>,
   Bare("PRETTY_NAME")}
MCOsFields == {"PRETTY_NAME"}

MCMetricLines == <<"disk.total", "disk.free">>
MCMetricFields == {"disk.total", "disk.free"}

MCIndexedFiles ==
  {Line("0", "0"), Blank, <<Piece(KeyText("0"), FALSE), Piece(ValueText("0"), FALSE)>>, <<>>}

MCAddressFiles == {[text |-> "server:50051", newline |-> FALSE]}
=============================================================================
