---------------------------- MODULE ModelCatalog ----------------------------
(***************************************************************************)
(* The models a worker registers when it starts (router/registry/          *)
(* catalog.ts): the paid ones, then the free ones, in this order.  Windows *)
(* are in tokens, prices in micro-dollars per million of them.  All of     *)
(* them are active and support tools and JSON schemas.                     *)
(***************************************************************************)
EXTENDS Integers, Sequences

K == 1024

Model(id, provider, aliases, window, output, in, out, cache, vision) ==
    [id |-> id, provider |-> provider, logicalAliases |-> aliases,
     contextWindow |-> window, maxOutputTokens |-> output,
     inputCost |-> in, outputCost |-> out, cacheCost |-> cache,
     supportsTools |-> TRUE, supportsVision |-> vision, supportsJsonSchema |-> TRUE,
     isActive |-> TRUE]

DEFAULT_MODEL_DEFINITIONS == <<
    Model("gemini-2.0-flash", "google", {"smart-fast", "fast-model", "fast"},
          1024 * K, 8 * K, 100000, 400000, 25000, TRUE),
    Model("gemini-1.5-pro", "google", {"smart-model", "reasoning"},
          2048 * K, 8 * K, 1250000, 5000000, 312500, TRUE),
    Model("gpt-4o", "openai", {"smart-model", "reasoning", "vision"},
          128000, 16 * K, 2500000, 10000000, 1250000, TRUE),
    Model("gpt-4o-mini", "openai", {"fast-model", "economy", "fast"},
          128000, 16 * K, 150000, 600000, 75000, TRUE),
    Model("claude-3-5-sonnet", "anthropic", {"smart-model", "reasoning", "code"},
          200000, 8 * K, 3000000, 15000000, 300000, TRUE),
    Model("claude-3-5-haiku", "anthropic", {"fast-model", "economy"},
          200000, 8 * K, 800000, 4000000, 80000, FALSE),
    Model("deepseek-chat", "deepseek", {"economy", "fast", "deepseek-v3"},
          64000, 8 * K, 140000, 280000, 14000, FALSE),
    Model("llama-3.3-70b-versatile", "groq", {"fast-model", "smart-fast"},
          128000, 32 * K, 590000, 790000, 0, FALSE)
    >>

FREE_TIER_MODEL_DEFINITIONS == <<
    Model("gemini-2.5-flash", "google", {"gemini-flash", "google-flash", "flash-2.5"},
          1024 * K, 64 * K, 75000, 300000, 18750, TRUE),
    Model("gemini-3.5-flash", "google", {"gemini-3.5", "flash-3.5"},
          1024 * K, 64 * K, 100000, 400000, 25000, TRUE),
    Model("gemini-3.5-flash-lite", "google", {"flash-lite", "gemini-lite"},
          1024 * K, 64 * K, 50000, 200000, 12500, TRUE),
    Model("gemini-3.1-pro-preview", "google", {"gemini-pro", "gemini-3.1-pro", "pro-3.1"},
          1024 * K, 64 * K, 1250000, 5000000, 312500, TRUE),
    Model("gemini-3.8-flash", "google", {"smart-fast-next", "gemini-3.8", "flash-3.8"},
          1024 * K, 64 * K, 150000, 600000, 37500, TRUE),
    Model("qwen/qwen3.6-27b", "groq", {"groq-code", "qwen-27b"},
          128 * K, 8 * K, 200000, 400000, 50000, FALSE),
    Model("qwen/qwen3.8-27b", "groq", {"qwen-3.8", "groq-qwen"},
          128 * K, 8 * K, 350000, 700000, 87500, FALSE),
    Model("openai/gpt-oss-120b", "groq", {"groq-oss", "gpt-oss", "gpt-oss-120b"},
          128 * K, 64 * K, 600000, 1200000, 150000, FALSE),
    Model("openai/gpt-oss-20b", "groq", {"gpt-oss-20b", "groq-fast"},
          128 * K, 64 * K, 150000, 300000, 37500, FALSE),
    Model("deepseek/deepseek-r1-distill-llama-70b", "deepseek", {"deepseek-r1", "r1-distill"},
          128 * K, 32 * K, 550000, 1500000, 137500, FALSE)
    >>

ALL_MODEL_DEFINITIONS == DEFAULT_MODEL_DEFINITIONS \o FREE_TIER_MODEL_DEFINITIONS
=============================================================================
