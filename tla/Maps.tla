-------------------------------- MODULE Maps --------------------------------
\* Maps as the Go code keeps them: functions whose domain grows.

\* f[k] = v, whether k was there or not.
Put(f, k, v) == [x \in DOMAIN f \cup {k} |-> IF x = k THEN v ELSE f[x]]

\* Every key of f put into g.
Over(f, g) == [x \in DOMAIN f \cup DOMAIN g |-> IF x \in DOMAIN f THEN f[x] ELSE g[x]]
=============================================================================
