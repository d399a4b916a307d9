------------------------------ MODULE FeedPolicy ------------------------------
(***************************************************************************)
(* The visibility rules of app/policy as predicates on a query, what the   *)
(* viewer's lists said when the request began, and a candidate, a post as  *)
(* the hydrators filled it in.                                             *)
(*                                                                         *)
(* A query is a record [viewer, following, blocked, muted, keywords,       *)
(* hidden, declined, adult]; following holds the viewer too.  A candidate  *)
(* is a record [id, author, source, words, labels, old, followersOnly,     *)
(* private, suspended, reply, parent], where parent is [missing, author,   *)
(* followersOnly, private, suspended] and means something if reply holds.  *)
(***************************************************************************)
EXTENDS Naturals

AmplificationLabels == {"spam_suspect", "nsfw", "do_not_amplify"}

Nsfw(c) == "nsfw" \in c.labels

(* The two clauses PrivateAccountRule and FollowersOnlyPostRule share with *)
(* ReplyAncillaryRule: the viewer is outside the audience of x.            *)
Outside(q, x) == x.author \notin q.following /\ (x.private \/ x.followersOnly)

(* Mutant: mutes are forgotten.                                            *)
ParentInvisible_Muted(q, c) ==
    /\ c.reply
    /\ c.parent.missing \/ c.parent.author \in q.blocked \/ c.parent.suspended
          \/ Outside(q, c.parent)

(* ReplyAncillaryRule.                                                     *)
ParentInvisible(q, c) ==
    /\ c.reply
    /\ \/ c.parent.missing
       \/ c.parent.author \in q.blocked \cup q.muted
       \/ c.parent.suspended
       \/ Outside(q, c.parent)

(* Does the rule answer DROP?                                              *)
Drops(rule, q, c) ==
    CASE rule = "HiddenPost"       -> c.id \in q.hidden
      [] rule = "Age"              -> c.old
      [] rule = "BlockedAuthor"    -> c.author \in q.blocked
      [] rule = "MutedAuthor"      -> c.author \in q.muted
      [] rule = "MutedKeyword"     -> c.words \cap q.keywords # {}
      [] rule = "SuspendedAuthor"  -> c.suspended
      [] rule = "PrivateAccount"   -> c.private /\ c.author \notin q.following
      [] rule = "FollowersOnly"    -> c.followersOnly /\ c.author \notin q.following
      [] rule = "OonReply"         -> c.reply /\ c.source = "oon"
      [] rule = "OonAmplification" -> c.source = "oon" /\ c.labels \cap AmplificationLabels # {}
      [] rule = "ReplyAncillary"   -> ParentInvisible(q, c)
      [] rule = "ViewerAgeGate"    -> Nsfw(c) /\ ~q.adult
      [] rule = "SensitiveInterstitial" -> FALSE

(* SensitiveInterstitialRule, the one rule that answers INTERSTITIAL.      *)
Sensitive(q, c) == Nsfw(c) /\ q.adult /\ c.source # "oon"

ThreadPolicy ==
    { "BlockedAuthor", "MutedAuthor", "MutedKeyword", "SuspendedAuthor", "PrivateAccount",
      "FollowersOnly", "ViewerAgeGate", "SensitiveInterstitial" }

(* Mutant: the age gate is left to the other surfaces.                     *)
FollowingPolicy_Ungated ==
    (ThreadPolicy \ {"ViewerAgeGate"}) \cup {"HiddenPost", "ReplyAncillary"}

FollowingPolicy == ThreadPolicy \cup {"HiddenPost", "ReplyAncillary"}

HomePolicy == FollowingPolicy \cup {"Age", "OonReply", "OonAmplification"}

(* evaluate_rules: one DROP decides; otherwise an INTERSTITIAL is kept.    *)
Verdict(policy, q, c) ==
    CASE \E rule \in policy : Drops(rule, q, c) -> "drop"
      [] OTHER -> IF "SensitiveInterstitial" \in policy /\ Sensitive(q, c)
                  THEN "interstitial" ELSE "allow"

===============================================================================
