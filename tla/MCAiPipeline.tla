---------------------------- MODULE MCAiPipeline ----------------------------
(* A small instance of AiPipeline for TLC.                                   *)
EXTENDS AiPipeline

CONSTANTS w1, w2

TwoSlots == {w1, w2}

TwoEvents == {1, 2}
First     == {1}

(* A failure the AI service declares and one the validator finds are recorded *)
(* alike, so one of them stands for both.                                    *)
KindsOfAnswer == AllAnswers \ {"failed"}
=============================================================================
