-------------------------------- MODULE MCLLM --------------------------------
EXTENDS LLM, TLC

CONSTANTS u1, u2, r1, r2, r3

MCUserOf == (r1 :> u1) @@ (r2 :> u1) @@ (r3 :> u2)
MCWeights == <<2, 1>>
MCBackend == <<"gemini", "huggingface">>
=============================================================================
