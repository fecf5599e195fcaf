------------------------------- MODULE MCSvLink -------------------------------
\* Octets of one bit, a second of five samples, a clock of two seconds: the
\* fields of a frame outgrow their width, and a count comes round in a frame.
EXTENDS SvLink

\* A signed measurement of four octets and a flag.
Written == <<[kind |-> "Int", octets |-> 4], [kind |-> "Boolean", octets |-> 1]>>

Configured ==
    {[mode |-> "preferred", revision |-> 1, layout |-> Written],
     [mode |-> "off", revision |-> 2, layout |-> None], [mode |-> "off", revision |-> None, layout |-> Tail(Written)]}

\* Free-running, and held by a grandmaster.
Said == {[synch |-> 0, gm |-> 0], [synch |-> 2, gm |-> 1]}

Asdu(ours, cnt, confRev, len) ==
    [ours |-> ours, cnt |-> cnt, confRev |-> confRev, synch |-> 0, refr |-> 0, gm |-> 0, block |-> ZeroBlock(len)]

\* What else arrives: noise, a test set whose frames carry another stream as
\* well, and a stream of another revision and data set.
Others ==
    {[addressed |-> TRUE, decodes |-> FALSE, sim |-> FALSE, asdus |-> <<>>],
     [addressed |-> TRUE, decodes |-> TRUE, sim |-> TRUE, asdus |-> <<Asdu(FALSE, 0, 1, SampleLen), Asdu(TRUE, 2, 1, SampleLen)>>],
     [addressed |-> TRUE, decodes |-> TRUE, sim |-> FALSE, asdus |-> <<Asdu(TRUE, 1, 3, SampleLen + 1)>>]}

\* What the theorems assume holds of this instance.
ASSUME InstanceAssumption == SameStream /\ Timely /\ OneSource /\ Spelled
=============================================================================
