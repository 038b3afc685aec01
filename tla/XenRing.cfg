CONSTANTS
    VCPUs = {1, 2}
    Size = 2
    Wrap = 4
    Reasons = {"mem_access", "mov_to_msr", "software_breakpoint", "desc_access", "vmexit"}
    Each = {TRUE, FALSE}
SPECIFICATION Spec
 
PROPERTIES RingIsQueue
CHECK_DEADLOCK FALSE
