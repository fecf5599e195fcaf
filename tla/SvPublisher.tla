----------------------------- MODULE SvPublisher -----------------------------
(***************************************************************************)
(* The sampled-value publisher (proto/sv/publisher.rs): one frame, encoded *)
(* once as a template and patched for every sample, in fields whose width  *)
(* cannot change underneath (proto/sv/apdu.rs).                            *)
(*                                                                         *)
(* A field is its width in octets and what its octets spell.  The strings, *)
(* confRev, smpRate and smpMod of an ASDU never change and are left out.   *)
(***************************************************************************)
EXTENDS SampleLayout

CONSTANTS
    Rate,       \* SvProfile::samples_per_second
    FieldTop,   \* counts of a 16-bit smpCnt, 65536
    Asdus,      \* SvProfile::asdus_per_frame
    SampleLen,  \* SvProfile::sample_len
    Unit        \* refrTm counts Unit to the second, 2^24

ASSUME SvPublisherAssumption ==
    /\ Rate \in Nat \ {0} /\ FieldTop \in Nat \ {0} /\ Asdus \in Nat \ {0}
    /\ SampleLen \in Nat /\ Unit \in Nat \ {0}

\* smp_cnt_wrap: a stream faster than its counter wraps with the counter.
Wrap == IF Rate > FieldTop THEN FieldTop ELSE Rate

Positions == 1 .. Asdus

\* unsigned_width: the octets that keep a number positive, and no fewer than
\* the field usually has.
FieldWidth(v, least) == CHOOSE w \in least .. least + 8 : 2 * v < Octet ^ w /\ \A x \in least .. w - 1 : 2 * v >= Octet ^ x

NewField(v, least) == [len |-> FieldWidth(v, least), value |-> v]

\* write_unsigned: the low octets of the value, as many as the field has.
Patched(field, v) == [field EXCEPT !.value = v % Octet ^ field.len]

\* build_template: the count's field holds the largest count of the stream.
Template(synch, refr, gm) ==
    [i \in Positions |->
        [cnt |-> NewField(Wrap - 1, 2), synch |-> NewField(synch, 1), refr |-> refr, gm |-> gm, block |-> ZeroBlock(SampleLen)]]

\* Publisher::new, with write_smp_cnt_fields.
NewSvPublisher ==
    [cnt |-> 0, synch |-> 0, refr |-> 0, gm |-> 0, pending |-> FALSE,
     frame |-> [i \in Positions |-> [Template(0, 0, 0)[i] EXCEPT !.cnt = Patched(@, (i - 1) % Wrap)]]]

\* patch_asdu, for each ASDU in turn: the count advances with each.
CountOf(p, i) == (p.cnt + i - 1) % Wrap

MayPublish(blocks) == Len(blocks) = Asdus /\ \A i \in DOMAIN blocks : Len(blocks[i]) = SampleLen

\* publish and queue: a frame nobody collected is overwritten.
SvPublish(p, blocks) ==
    IF ~MayPublish(blocks) THEN p
    ELSE [p EXCEPT !.frame = [i \in Positions |-> [p.frame[i] EXCEPT !.cnt = Patched(@, CountOf(p, i)), !.block = blocks[i]]],
                   !.cnt = CountOf(p, Asdus + 1),
                   !.pending = TRUE]

\* Mutant: the template is built again, and what it held is gone.
RebuiltEmpty(p) == [p EXCEPT !.frame = [i \in Positions |-> Template(p.synch, p.refr, p.gm)[i]]]

\* rebuild: counts and blocks are carried over.  build_template stamps every
\* ASDU with the refrTm of the first.
Rebuilt(p) ==
    [p EXCEPT !.frame = [i \in Positions |->
        [Template(p.synch, p.refr, p.gm)[i] EXCEPT !.cnt = Patched(@, p.frame[i].cnt.value), !.block = p.frame[i].block]]]

\* set_smp_synch: a patch, unless the field is too narrow for the new value.
SetSmpSynch(p, synch) ==
    LET q == [p EXCEPT !.synch = synch]
    IN  IF \A i \in Positions : p.frame[i].synch.len >= FieldWidth(synch, 1)
        THEN [q EXCEPT !.frame = [i \in Positions |-> [p.frame[i] EXCEPT !.synch = Patched(@, synch)]]]
        ELSE Rebuilt(q)

\* set_refr_tm: each ASDU is a sample interval later than the one before it.
SetRefrTm(p, t) ==
    [p EXCEPT !.refr = t, !.frame = [i \in Positions |-> [@[i] EXCEPT !.refr = t + ((i - 1) * Unit) \div Rate]]]

SetGmIdentity(p, gm) == [p EXCEPT !.gm = gm, !.frame = [i \in Positions |-> [@[i] EXCEPT !.gm = gm]]]

\* set_smp_cnt: the count comes from an absolute time source.
SetSmpCnt(p, cnt) == [p EXCEPT !.cnt = cnt % Wrap]

\* poll_transmit.
SvCollected(p) == [p EXCEPT !.pending = FALSE]
=============================================================================
