CONSTANTS
  Requests = {r1, r2, r3}
  MAX_CHANNEL = 1
  UV_pass = UV_pass
  UV_deny = UV_deny
  NoVerdict = NoVerdict
  NoRequest = NoRequest
SPECIFICATION Spec
INVARIANTS ChannelSafety DenialStands
PROPERTIES ImplementsVerdicts CallReturns ChannelComesBack
