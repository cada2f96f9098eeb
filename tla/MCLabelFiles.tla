------------------------------ MODULE MCLabelFiles ------------------------------
(***************************************************************************)
(* Two analysts, one tracked site that the agent labelled and one feed     *)
(* site, two labels.  The feed lists both sites; a cycle takes one.        *)
(***************************************************************************)
EXTENDS LabelFiles, TLC

CONSTANTS d1, d2, tracked, feed, phishing, legitimate

MCSites == {tracked, feed}

MCTracked == {tracked}

MCFeedText == {[site |-> feed, http |-> TRUE, branded |-> TRUE],
               [site |-> tracked, http |-> TRUE, branded |-> TRUE]}

MCLabels == {phishing, legitimate}

MCAgentLabel == tracked :> phishing
=============================================================================
