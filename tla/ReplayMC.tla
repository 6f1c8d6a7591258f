------------------------------ MODULE ReplayMC ------------------------------
(* Files of up to three lines.  The second is any line either program       *)
(* writes, or one with one field lost or of any other class, or with a      *)
(* field nobody knows; the first and the third are from a smaller choice.   *)
EXTENDS Replay

Other(json) == [json |-> json, type |-> "none", fields |-> <<>>, spelled |-> FALSE, padded |-> FALSE]
Bad == {Other(x) : x \in {"undecodable", "blank", "syntax", "value", "untyped"}}
Later == Object("resume", [t |-> "ten"])

With(line, f, v) == [line EXCEPT !.fields =
                       [g \in DOMAIN line.fields \cup {f} |-> IF g = f THEN v ELSE line.fields[g]]]
Without(line, f) == [line EXCEPT !.fields =
                       [g \in DOMAIN line.fields \ {f} |-> line.fields[g]]]
Respelled(lines) == {[l EXCEPT !.spelled = FALSE] : l \in lines}
                      \cup {[l EXCEPT !.padded = TRUE] : l \in lines}
Varied(lines) == {With(l, "future", "ten") : l \in lines}
                   \cup UNION {{Without(l, f) : f \in DOMAIN l.fields} : l \in lines}
                   \cup {With(l, f, v) : l \in lines, f \in {"t", "trigger_span", "channel", "velocity",
                           "bpm", "subdiv", "profile_ref", "msg", "schema_version", "kit_profile_id"}, v \in Values}

OfType(type) == CHOOSE l \in BoxLines : l.type = type
Samples == {OfType(type) : type \in Known}

Any == Written \cup Varied(Samples) \cup Respelled(Samples \cup {Later}) \cup {Later} \cup Bad
Heads == {l \in Written : l.type = "meta"} \cup {OfType("event"), With(OfType("meta"), "schema_version", "ten"),
            With(OfType("meta"), "future", "ten")} \cup Bad
Files == <<Heads, Any, {OfType("event"), OfType("meta")} \cup Bad>>
=============================================================================
