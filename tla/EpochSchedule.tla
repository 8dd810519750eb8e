---------------------------- MODULE EpochSchedule ----------------------------
(***************************************************************************)
(* The deadlines of an epoch, in ticks from its start, as pki/server       *)
(* computes them (state.go:66-70, aux.go:36-43, state.go:1813).            *)
(***************************************************************************)
EXTENDS Integers

CONSTANT Period         \* ticks in an epoch (epochtime.Period)

(* An epoch has room for its eight slots. *)
ASSUME PeriodAssumption == Period \in Nat /\ Period >= 8

MixPublishDeadline == Period \div 8
AuthorityVoteDeadline == MixPublishDeadline + Period \div 8
AuthorityRevealDeadline == AuthorityVoteDeadline + Period \div 8
AuthorityCertDeadline == AuthorityRevealDeadline + Period \div 8
PublishConsensusDeadline == AuthorityCertDeadline + Period \div 8
DescriptorBlockDeadline == (Period * 2) \div 8
DocGenerationDeadline == 7 * (Period \div 8)

(* The random part of a sleep. *)
JitterMax == Period \div 16
Jitter == 0 .. JitterMax
=============================================================================
