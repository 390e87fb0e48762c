---------------------------- MODULE SelectorReaders ----------------------------
(***************************************************************************)
(* domain/labels.rs reads a selector into a map and then looks each key of *)
(* the map up; the script of LabelSelector decides part by part.  The      *)
(* labels of a worker come from parse_env_labels, which reads its setting  *)
(* as LabelSelector::parse reads a selector.                               *)
(***************************************************************************)
EXTENDS LabelSelector

PartsOf(text) == {text[i] : i \in DOMAIN text}

WellFormed(text) == Malformed \notin PartsOf(text)

(* BTreeMap::insert: of the parts with one key the last one stays. *)
Entries(text) ==
    {text[i] : i \in {j \in DOMAIN text :
                        \A k \in (j + 1) .. Len(text) : text[k].key # text[j].key}}

MutantRustMatches(labels, selector) ==
    IF Entries(selector) \subseteq labels THEN "match" ELSE "mismatch"

(* parse, then matches *)
RustMatches(labels, selector) ==
    IF ~WellFormed(selector) THEN "invalid"
    ELSE IF Entries(selector) \subseteq labels THEN "match" ELSE "mismatch"

OneValuePerKey(parts) == \A p, q \in parts : p.key = q.key => p = q

(* Whatever the script accepts or calls invalid, the Rust reader does, and *)
(* where no key has two values and no part is malformed they agree.  (A    *)
(* selector with "k=a,k=b" matches "k=b" in Rust and nothing in the        *)
(* script; "k=a,oops" is an error in Rust and a mismatch in the script for *)
(* a worker without "k=a".)                                                *)
Agree(selector, script, rust) ==
    /\ script = "match" => rust = "match"
    /\ script = "invalid" => rust = "invalid"
    /\ WellFormed(selector) /\ OneValuePerKey(PartsOf(selector)) => script = rust
===============================================================================
