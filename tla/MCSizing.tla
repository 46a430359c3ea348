------------------------------- MODULE MCSizing -------------------------------
EXTENDS Sizing

MCWorkloads ==
  {x \in [concurrent : {None, 3}, daily : {2}, duty : {1, 4}, residency : {None, 2, 4},
          input : {0, 4}, output : {0, 2}, growth : {0, 2}, requests : {1, 3},
          target : {0, 1}, secs : {0, 2}, peak : {4}] :
     x.residency = None \/ x.residency = 4 \/ x.duty = 1 \/ x.input = 4}

MCDeployments ==
  {[layers |-> 3, global |-> 1, heads |-> heads, window |-> window, width |-> width,
    vram |-> 120, weights |-> weights, tok |-> tok, prefill |-> prefill] :
     heads \in {1, 2, 3}, window \in {None, 1, 3}, width \in {1, 2, 4}, weights \in {60},
     tok \in {1}, prefill \in {None, 2}}
=============================================================================
